---- MODULE Spec2Model ----
(***************************************************************************)
(* Classification proxy: result sanitisation, provider routing and the     *)
(* response cache of the server variants under src/.                       *)
(*                                                                         *)
(* JavaScript values are records [t, s, n]: t is the type tag, s the text  *)
(* of a string, n the number.  Confidences are integers in hundredths      *)
(* (0.8 is 80).  A reason text is represented by its length.               *)
(***************************************************************************)
EXTENDS Integers, Sequences, FiniteSets, Bags, TLC

(* ---------------------------------------------------------------------- *)
(* JavaScript values                                                       *)
(* ---------------------------------------------------------------------- *)
Undef == [t |-> "undefined", s |-> "", n |-> 0]
Null == [t |-> "null", s |-> "", n |-> 0]
NaN == [t |-> "nan", s |-> "", n |-> 0]
Str(x) == [t |-> "string", s |-> x, n |-> 0]
Num(k) == [t |-> "number", s |-> "", n |-> k]
Bool(b) == [t |-> "boolean", s |-> "", n |-> IF b THEN 1 ELSE 0]
\* a text of which only the length matters (reason)
Txt(len) == [t |-> "string", s |-> "", n |-> len]

typeof(v) == IF v.t = "nan" THEN "number" ELSE IF v.t = "null" THEN "object" ELSE v.t

\* !!v
Truthy(v) ==
    CASE v.t = "undefined" -> FALSE
      [] v.t = "null" -> FALSE
      [] v.t = "nan" -> FALSE
      [] v.t = "number" -> v.n # 0
      [] v.t = "boolean" -> v.n = 1
      [] v.t = "string" -> (v.s # "" \/ v.n > 0)
      [] OTHER -> TRUE

\* a ?? b
Nullish(v) == v.t \in {"undefined", "null"}
Coalesce(a, b) == IF Nullish(a) THEN b ELSE a

\* String.prototype.toLowerCase on the texts of the model
toLowerCase(x) ==
    CASE x = "Groceries" -> "groceries"
      [] x = "Other" -> "other"
      [] x = "Movies" -> "movies"
      [] x = "Dairy" -> "dairy"
      [] x = "Misc" -> "misc"
      [] x = "Food" -> "food"
      [] x = "Food court" -> "food court"
      [] x = "Milk" -> "milk"
      [] x = " Milk " -> " milk "
      [] OTHER -> x

\* String.prototype.trim
trim(x) ==
    CASE x = " Milk " -> "Milk"
      [] x = " milk " -> "milk"
      [] x = "  " -> ""
      [] OTHER -> x

\* x.trim().split(/\s+/)[0]
FirstToken(x) ==
    CASE trim(x) = "Food court" -> "Food"
      [] trim(x) = "food court" -> "food"
      [] OTHER -> trim(x)

\* String(v) for the values a model can put in a text field
String(v) ==
    CASE v.t = "string" -> v.s
      [] v.t = "number" -> IF v.n = 1 THEN "1" ELSE "0"
      [] v.t = "boolean" -> IF v.n = 1 THEN "true" ELSE "false"
      [] OTHER -> v.t

\* position of a text in the code-unit order Array.prototype.sort uses
Rank(x) ==
    CASE x = "Dairy" -> 0
      [] x = "Groceries" -> 1
      [] x = "Misc" -> 2
      [] x = "Movies" -> 3
      [] x = "Other" -> 4
      [] x = "dairy" -> 5
      [] x = "groceries" -> 6
      [] x = "misc" -> 7
      [] x = "movies" -> 8
      [] x = "other" -> 9
      [] OTHER -> 10

\* ToNumber, as Math.min / Math.max apply it to an argument
ToNumber(v) ==
    CASE v.t = "number" -> v
      [] v.t = "boolean" -> Num(v.n * 100)
      [] v.t = "null" -> Num(0)
      [] v.t = "string" -> IF v.s = "" THEN Num(0) ELSE IF v.s = "1" THEN Num(100) ELSE NaN
      [] OTHER -> NaN

Min(a, b) == IF a < b THEN a ELSE b
Max(a, b) == IF a > b THEN a ELSE b

\* Math.max(lo, Math.min(hi, x)) on hundredths; NaN propagates
MathClamp(x, lo, hi) ==
    LET nx == ToNumber(x)
    IN  IF nx.t = "nan" THEN NaN ELSE Num(Max(lo, Min(hi, nx.n)))

clamp(x, lo, hi) == MathClamp(x, lo, hi)

\* membership and search in a sequence
Elems(seq) == {seq[i] : i \in 1..Len(seq)}
includes(seq, x) == x \in Elems(seq)

(* ---------------------------------------------------------------------- *)
(* Taxonomy: categories is an array of texts or absent; a subcategory      *)
(* mapping is an object, kept as its entries in insertion order.           *)
(* ---------------------------------------------------------------------- *)
CatArr(seq) == [isArray |-> TRUE, items |-> seq]
NoCats == [isArray |-> FALSE, items |-> <<>>]

\* Array.isArray(categories) ? categories : []
ArrayOrEmpty(categories) == IF categories.isArray THEN categories.items ELSE <<>>

HasKey(subs, cat) == \E i \in 1..Len(subs) : subs[i].k = cat
\* subs?.[cat], for a mapping whose keys are unique
Lookup(subs, cat) == subs[CHOOSE i \in 1..Len(subs) : subs[i].k = cat].v
\* subs?.[cat] || []
LookupOrEmpty(subs, cat) == IF HasKey(subs, cat) THEN Lookup(subs, cat) ELSE <<>>

(* ---------------------------------------------------------------------- *)
(* A parsed model output: t is its JSON type, the other fields are the     *)
(* properties read from it (Undef where the value has no such property).   *)
(* ---------------------------------------------------------------------- *)
Obj(c, sub, conf, r, snc, sns, alt) ==
    [t |-> "object", provider |-> Undef, category |-> c, subcategory |-> sub,
     confidence |-> conf, reason |-> r, suggestedNewCategory |-> snc,
     suggestedNewSubcategory |-> sns, alternativeCategory |-> alt]
Prim(ty) ==
    [t |-> ty, provider |-> Undef, category |-> Undef, subcategory |-> Undef,
     confidence |-> Undef, reason |-> Undef, suggestedNewCategory |-> Undef,
     suggestedNewSubcategory |-> Undef, alternativeCategory |-> Undef]

\* !!obj for a parsed value (a number or string output is taken non-zero / non-empty)
ObjTruthy(obj) == obj.t \notin {"null", "undefined", "false"}
\* typeof obj === 'object'
IsObjectType(obj) == obj.t \in {"object", "array", "null"}

(* ---------------------------------------------------------------------- *)
(* Result Sanitizer                                                        *)
(* ---------------------------------------------------------------------- *)
\* the sanitizer's result record before any field is accepted
SanitizeDefaults(provider) ==
    [provider |-> provider, category |-> Str("Other"), subcategory |-> Null,
     confidence |-> Num(0), reason |-> Str(""), suggestedNewCategory |-> Null,
     suggestedNewSubcategory |-> Null, alternativeCategory |-> Null]

\* a sanitizer that copies the fields it is given
SanitizeFields_Copied(obj, categories, subcats, provider) ==
    [provider |-> provider, category |-> obj.category, subcategory |-> obj.subcategory,
     confidence |-> obj.confidence, reason |-> obj.reason,
     suggestedNewCategory |-> obj.suggestedNewCategory,
     suggestedNewSubcategory |-> obj.suggestedNewSubcategory,
     alternativeCategory |-> obj.alternativeCategory]

\* the field-by-field part of sanitizeSingle, common to both server variants
SanitizeFields(obj, categories, subcats, provider) ==
    LET valid == Elems(ArrayOrEmpty(categories))
        out == SanitizeDefaults(provider)
        cat == IF typeof(obj.category) = "string" /\ obj.category.s \in valid
               THEN obj.category ELSE out.category
        conf == IF typeof(obj.confidence) = "number"
                THEN MathClamp(obj.confidence, 0, 100) ELSE out.confidence
        reason == IF typeof(obj.reason) = "string"
                  THEN Txt(Min(obj.reason.n, 280)) ELSE out.reason
        snc == IF typeof(obj.suggestedNewCategory) = "string"
                  /\ trim(obj.suggestedNewCategory.s) # ""
               THEN Str(FirstToken(obj.suggestedNewCategory.s))
               ELSE out.suggestedNewCategory
        sns == IF typeof(obj.suggestedNewSubcategory) = "string"
                  /\ trim(obj.suggestedNewSubcategory.s) # ""
               THEN Str(FirstToken(obj.suggestedNewSubcategory.s))
               ELSE out.suggestedNewSubcategory
        alt == IF typeof(obj.alternativeCategory) = "string"
                  /\ obj.alternativeCategory.s \in valid
                  /\ obj.alternativeCategory # cat
               THEN obj.alternativeCategory ELSE out.alternativeCategory
        sub == IF HasKey(subcats, cat.s)
                  /\ typeof(obj.subcategory) = "string"
                  /\ includes(Lookup(subcats, cat.s), obj.subcategory.s)
                  /\ conf.t = "number" /\ conf.n >= 80
               THEN obj.subcategory ELSE out.subcategory
    IN  [provider |-> provider, category |-> cat, subcategory |-> sub,
         confidence |-> conf, reason |-> reason, suggestedNewCategory |-> snc,
         suggestedNewSubcategory |-> sns, alternativeCategory |-> alt]

\* sanitizeSingle of the hardened server: the result carries obj.provider || 'model'
sanitizeSingle(obj, categories, subcats) ==
    LET provider == IF ObjTruthy(obj) /\ Truthy(obj.provider)
                    THEN obj.provider ELSE Str("model")
    IN  IF ~ObjTruthy(obj) \/ ~IsObjectType(obj)
        THEN SanitizeDefaults(provider)
        ELSE SanitizeFields(obj, categories, subcats, provider)

\* sanitizeSingle of the minimal server: the same checks, no provider field
sanitizeSingleMinimal(obj, categories, subcats) ==
    IF ~ObjTruthy(obj) \/ ~IsObjectType(obj)
    THEN SanitizeDefaults(Undef)
    ELSE SanitizeFields(obj, categories, subcats, Undef)

(* ---------------------------------------------------------------------- *)
(* Mappers: model text -> raw result.  A model text is [form, val]:        *)
(*   "empty"   the empty string                                            *)
(*   "json"    JSON.parse succeeds and gives val                           *)
(*   "wrapped" JSON.parse fails, the text from the first '{' to the last   *)
(*             '}' parses and gives val                                    *)
(*   "garbage" neither parses                                              *)
(* ---------------------------------------------------------------------- *)
JSON_stringify(parsed) == [form |-> "json", val |-> parsed]

tryParseJSON(text, null) ==
    CASE text.form = "empty" -> null
      [] text.form = "json" -> text.val
      [] text.form = "wrapped" -> text.val
      [] OTHER -> null

\* the low-confidence record both mappers substitute for unusable output
MapFallback ==
    [t |-> "object", provider |-> Str("model"), category |-> Str("Other"),
     subcategory |-> Null, confidence |-> Num(10), reason |-> Txt(34),
     suggestedNewCategory |-> Null, suggestedNewSubcategory |-> Null,
     alternativeCategory |-> Null]

\* the field mapping mapClassify and mapAnalyze apply to one parsed object
MapFields(parsed, withAlt) ==
    [t |-> "object", provider |-> Str("model"),
     category |-> IF typeof(parsed.category) = "string"
                  THEN parsed.category ELSE Str("Other"),
     subcategory |-> Coalesce(parsed.subcategory, Null),
     confidence |-> IF typeof(parsed.confidence) = "number"
                    THEN parsed.confidence ELSE Num(50),
     reason |-> IF typeof(parsed.reason) = "string" THEN parsed.reason ELSE Str(""),
     suggestedNewCategory |-> Coalesce(parsed.suggestedNewCategory, Null),
     suggestedNewSubcategory |-> Coalesce(parsed.suggestedNewSubcategory, Null),
     alternativeCategory |-> IF withAlt THEN Coalesce(parsed.alternativeCategory, Null)
                             ELSE Undef]

\* a mapClassify whose fallback is the mapping of an empty object
mapClassify_EmptyObject(modelText) ==
    MapFields(Obj(Undef, Undef, Undef, Undef, Undef, Undef, Undef), TRUE)

mapClassify(modelText) ==
    LET parsed == tryParseJSON(modelText, Prim("null"))
    IN  IF ~ObjTruthy(parsed) \/ ~IsObjectType(parsed)
        THEN MapFallback
        ELSE MapFields(parsed, TRUE)

(* A parsed batch output is [t, hasItems, items]: hasItems is               *)
(* Array.isArray(parsed.items), items the elements (each a parsed value).   *)
Batch(items) == [t |-> "object", hasItems |-> TRUE, items |-> items]
BatchPrim(ty) == [t |-> ty, hasItems |-> FALSE, items |-> <<>>]

\* mapAnalyze(modelText, lines).items; "throw" when an element is null or undefined
mapAnalyze(modelText, lines) ==
    LET parsed == tryParseJSON(modelText, BatchPrim("null"))
    IN  IF ~ObjTruthy(parsed) \/ ~IsObjectType(parsed) \/ ~parsed.hasItems
        THEN [threw |-> FALSE,
              items |-> [i \in 1..Len(lines) |-> [MapFallback EXCEPT !.alternativeCategory = Undef]]]
        ELSE IF \E i \in 1..Len(parsed.items) : ~ObjTruthy(parsed.items[i]) /\ IsObjectType(parsed.items[i])
        THEN [threw |-> TRUE, items |-> <<>>]
        ELSE [threw |-> FALSE,
              items |-> [i \in 1..Len(parsed.items) |-> MapFields(parsed.items[i], FALSE)]]

\* POST-RULE (Rule #2) of the hardened handlers: Other + suggested 'food' -> Groceries
PostRule2(clean) ==
    IF clean.category = Str("Other")
       /\ clean.suggestedNewCategory.t = "string"
       /\ toLowerCase(clean.suggestedNewCategory.s) = "food"
    THEN [clean EXCEPT !.category = Str("Groceries"),
                       !.suggestedNewCategory = Null,
                       !.reason = Txt((IF Truthy(clean.reason) THEN clean.reason.n + 1 ELSE 0) + 32)]
    ELSE clean

\* body.categories if it is a non-empty array, else the built-in list
DefaultCategories == <<"To-do", "Reminders", "Groceries", "Movies", "Shows", "App", "Other">>
HardenedCategories(categories) ==
    IF categories.isArray /\ Len(categories.items) > 0
    THEN categories ELSE CatArr(DefaultCategories)

\* hardened POST /classify from the provider's answer to the response body
HardenedClassify(provider, parsed, bodyCategories, subcats) ==
    LET categories == HardenedCategories(bodyCategories)
        mapped == [mapClassify(JSON_stringify(parsed)) EXCEPT !.provider = Str(provider)]
    IN  PostRule2(sanitizeSingle(mapped, categories, subcats))

\* hardened POST /analyze from the provider's answer to the response items
HardenedAnalyze(provider, parsed, lines, bodyCategories, subcats) ==
    LET categories == HardenedCategories(bodyCategories)
        mapped == mapAnalyze(JSON_stringify(parsed), lines)
    IN  IF mapped.threw
        THEN [status |-> 500, items |-> <<>>]
        ELSE [status |-> 200,
              items |-> [i \in 1..Len(mapped.items) |->
                  PostRule2(sanitizeSingle([mapped.items[i] EXCEPT !.provider = Str(provider)],
                                           categories, subcats))]]

\* POST /analyze of the minimal server from callLLM's parsed result to the response
\* items: one item per line, `items[idx] || {}` sanitized, alternativeCategory deleted
MinimalAnalyze(result, lines, categories, subcats) ==
    LET items == IF result.hasItems THEN result.items ELSE <<>>
        r(idx) == IF idx <= Len(items) /\ ObjTruthy(items[idx]) THEN items[idx]
                  ELSE Obj(Undef, Undef, Undef, Undef, Undef, Undef, Undef)
    IN  [status |-> 200,
         items |-> [idx \in 1..Len(lines) |->
             [sanitizeSingleMinimal(r(idx), categories, subcats)
                 EXCEPT !.alternativeCategory = Undef]]]

(* ---------------------------------------------------------------------- *)
(* server.js: Taxonomy Validator and Provider Adapters                     *)
(* ---------------------------------------------------------------------- *)
FALLBACK_CONFIDENCE == 60

\* first entry of provided equal to modelOut ignoring case, in provided casing; else null
pickProvidedCategory(modelOut, provided) ==
    IF ~Truthy(modelOut) \/ Len(provided) = 0
    THEN Null
    ELSE LET m == toLowerCase(String(modelOut))
             hits == {i \in 1..Len(provided) : toLowerCase(provided[i]) = m}
         IN  IF hits = {} THEN Null
             ELSE Str(provided[CHOOSE i \in hits : \A j \in hits : i <= j])

\* the entry of subsByCat[category] equal to sub ignoring case, else null
validateSub(category, sub, subsByCat) ==
    IF ~Truthy(sub) \/ ~Truthy(category)
    THEN Null
    ELSE LET list == LookupOrEmpty(subsByCat, category.s)
             hits == {i \in 1..Len(list) : toLowerCase(list[i]) = toLowerCase(String(sub))}
         IN  IF hits = {} THEN Null
             ELSE LET found == Str(list[CHOOSE i \in hits : \A j \in hits : i <= j])
                  IN  IF Truthy(found) THEN found ELSE Null

\* v || d
OrElse(v, d) == IF Truthy(v) THEN v ELSE d

\* what classifyWithGemini / classifyWithOpenAI build from the parsed output `out`
\* (out is not null: reading a property of null throws before this point)
AdapterResult(provider, out, categories, subcategoriesByCat) ==
    LET cats == ArrayOrEmpty(categories)
        picked == pickProvidedCategory(out.category, cats)
    IN  [provider |-> Str(provider),
         category |-> Coalesce(picked, Str("Other")),
         subcategory |-> validateSub(Coalesce(picked, Str("Other")), out.subcategory,
                                     subcategoriesByCat),
         confidence |-> clamp(Coalesce(out.confidence, Num(FALLBACK_CONFIDENCE)), 0, 100),
         reason |-> OrElse(out.reason, Str("")),
         suggestedNewCategory |-> OrElse(out.suggestedNewCategory, Null),
         suggestedNewSubcategory |-> Undef,
         alternativeCategory |-> Undef]

\* JSON.parse(textOut || "{}") then the property reads: throws on null
AdapterThrows(out) == out.t = "null"

\* POST /analyze (per-line variant): one element of out.items to one response item
AnalyzeItem(it) ==
    [provider |-> Undef,
     category |-> Str(String(OrElse(it.category, Str("Other")))),
     subcategory |-> Coalesce(it.subcategory, Null),
     confidence |-> IF typeof(it.confidence) = "number" THEN it.confidence ELSE Num(60),
     reason |-> Undef,
     suggestedNewCategory |-> Coalesce(it.suggestedNewCategory, Null),
     suggestedNewSubcategory |-> Undef,
     alternativeCategory |-> Undef]

\* POST /analyze (per-line variant): the response built from the provider's parsed output
AnalyzeResponse(out) ==
    IF AdapterThrows(out) \/ \E i \in 1..Len(out.items) : out.items[i].t = "null"
    THEN [status |-> 502, items |-> <<>>]
    ELSE [status |-> 200,
          items |-> IF out.hasItems
                    THEN [i \in 1..Len(out.items) |-> AnalyzeItem(out.items[i])]
                    ELSE <<>>]

(* ---------------------------------------------------------------------- *)
(* Response Cache keys                                                     *)
(* ---------------------------------------------------------------------- *)
\* Array.prototype.sort() of a sequence of texts
Sort(seq) ==
    LET n == Len(seq)
        f == CHOOSE g \in Permutations(1..n) :
                 \A i, j \in 1..n : i < j => Rank(seq[g[i]]) <= Rank(seq[g[j]])
    IN  [i \in 1..n |-> seq[f[i]]]

MapLower(seq) == [i \in 1..Len(seq) |-> toLowerCase(seq[i])]

\* Object.fromEntries: a repeated key keeps its first position and its last value
fromEntries(entries) ==
    LET first == {i \in 1..Len(entries) : \A j \in 1..(i - 1) : entries[j].k # entries[i].k}
        last(k) == CHOOSE i \in 1..Len(entries) :
                       entries[i].k = k /\ \A j \in (i + 1)..Len(entries) : entries[j].k # k
        pick(i) == [k |-> entries[i].k, v |-> entries[last(entries[i].k)].v]
        RECURSIVE build(_)
        build(i) == IF i > Len(entries) THEN <<>>
                    ELSE IF i \in first THEN <<pick(i)>> \o build(i + 1)
                    ELSE build(i + 1)
    IN  build(1)

\* server.js cacheKey: the JSON text is determined by (t, c, s), s in property order
cacheKey(text, categories, subcategoriesByCat) ==
    [t |-> toLowerCase(trim(text)),
     c |-> Sort(MapLower(ArrayOrEmpty(categories))),
     s |-> fromEntries([i \in 1..Len(subcategoriesByCat) |->
              [k |-> toLowerCase(subcategoriesByCat[i].k),
               v |-> Sort(MapLower(subcategoriesByCat[i].v))]])]

\* minimal server: 'c:' + normalizeKey(raw) + '|' + JSON.stringify(categories || [])
minimalKey(text, categories) ==
    [t |-> toLowerCase(trim(text)), c |-> ArrayOrEmpty(categories), s |-> <<>>]

(* ---------------------------------------------------------------------- *)
(* State                                                                   *)
(* ---------------------------------------------------------------------- *)
VARIABLES
    call,     \* the last single-result operation applied: inputs and result
    bcall,    \* the last multi-line operation applied: inputs and response
    kcall     \* the last pair of cache keys computed: the two requests and keys

pureVars == <<call, bcall, kcall>>

VARIABLES
    variant,          \* which server file runs: "server" (server.js) or "minimal"
    GEMINI_API_KEY,   \* TRUE when the primary provider's credential is configured
    OPENAI_API_KEY,   \* TRUE when the secondary provider's credential is configured
    now,              \* Date.now(), in ticks
    CACHE,            \* the Map of the cache: CACHE of server.js, cache.map of the minimal server
    tasks,            \* the bag of classifications awaiting a provider
    batch,            \* the /classify-batch request being assembled
    resp,             \* the response sent by the last step, if it sent one
    ops,              \* the cache and router calls the last step made: arguments and results
    first             \* history: the latest /classify answered by a provider, when watched

srvVars == <<variant, GEMINI_API_KEY, OPENAI_API_KEY, now, CACHE, tasks, batch, resp, ops,
             first>>
vars == <<call, bcall, kcall, variant, GEMINI_API_KEY, OPENAI_API_KEY, now, CACHE, tasks,
          batch, resp, ops, first>>

None == [op |-> "none"]

(* ---------------------------------------------------------------------- *)
(* Inputs: what a caller can send and what a model can answer              *)
(* ---------------------------------------------------------------------- *)
CategoryLists ==
    {NoCats, CatArr(<<>>), CatArr(<<"Groceries", "Other">>),
     CatArr(<<"Groceries", "Movies">>), CatArr(<<"groceries", "other">>)}

SubMaps ==
    {<<>>,
     <<[k |-> "Groceries", v |-> <<"Dairy">>], [k |-> "Other", v |-> <<"Misc">>]>>}

ModelCategory == {Undef, Str("Groceries"), Str("groceries"), Str("Other"), Str("junk"), Num(1)}
ModelSubcategory == {Undef, Str("Dairy"), Str("dairy"), Str("Misc")}
ModelConfidence == {Undef, Num(-50), Num(30), Num(80), Num(170), Str("high")}
ModelReason == {Undef, Txt(5), Txt(281)}
ModelSuggestion == {Undef, Str("Food"), Str("food court"), Str("  ")}
ModelSubSuggestion == {Undef, Str("Organic")}
ModelAlternative == {Undef, Str("Groceries"), Str("Movies")}

ModelObjects ==
    {Obj(c, sub, conf, r, snc, sns, alt) :
        c \in ModelCategory, sub \in ModelSubcategory, conf \in ModelConfidence,
        r \in ModelReason, snc \in ModelSuggestion, sns \in ModelSubSuggestion,
        alt \in ModelAlternative}

\* JSON values that are no plain object
ModelPrimitives == {Prim("null"), Prim("array"), Prim("number"), Prim("string")}
\* what safeParse / safeJsonParse let through: `if (parsed)`
TruthyParsed == ModelObjects \cup (ModelPrimitives \ {Prim("null")})

\* elements of a multi-line answer
ModelItems ==
    {Obj(Str("Groceries"), Str("Dairy"), Num(80), Txt(5), Undef, Undef, Undef),
     Obj(Str("Other"), Str("Misc"), Num(170), Txt(281), Str("Food"), Undef, Undef),
     Obj(Str("junk"), Undef, Str("high"), Undef, Undef, Undef, Undef),
     Obj(Num(1), Str("Misc"), Num(30), Undef, Str("food court"), Undef, Undef),
     Prim("null"), Prim("number")}

MaxItems == 2
ItemSeqs == UNION {[1..n -> ModelItems] : n \in 0..MaxItems}
ModelBatches == {Batch(items) : items \in ItemSeqs}
                    \cup {BatchPrim("object"), BatchPrim("array"), BatchPrim("number")}

LineLists == {<<>>, <<"Milk">>, <<"Milk", "tea">>}
Providers == {"gemini", "openai"}

(* ---------------------------------------------------------------------- *)
(* Pure operations: Init draws the inputs, one step applies an operation   *)
(* ---------------------------------------------------------------------- *)
SingleInputs ==
    {[op |-> "input", obj |-> obj, categories |-> cats, subs |-> subs] :
        obj \in ModelObjects \cup ModelPrimitives, cats \in CategoryLists, subs \in SubMaps}
BatchInputs ==
    {[op |-> "input", batch |-> b, lines |-> lines, categories |-> cats, subs |-> subs] :
        b \in ModelBatches \cup {BatchPrim("null")}, lines \in LineLists \ {<<>>},
        cats \in CategoryLists, subs \in SubMaps}

SanitizeCall ==
    /\ call.op = "input"
    /\ call' = [call EXCEPT !.op = "sanitizeSingle"] @@
               [used |-> call.categories, threw |-> FALSE,
                out |-> sanitizeSingle(call.obj, call.categories, call.subs)]
    /\ UNCHANGED <<bcall, kcall>> /\ UNCHANGED srvVars

SanitizeMinimalCall ==
    /\ call.op = "input"
    /\ call' = [call EXCEPT !.op = "sanitizeSingleMinimal"] @@
               [used |-> call.categories, threw |-> FALSE,
                out |-> sanitizeSingleMinimal(call.obj, call.categories, call.subs)]
    /\ UNCHANGED <<bcall, kcall>> /\ UNCHANGED srvVars

\* callLLM hands the handler a truthy parsed value and the provider that gave it
HardenedClassifyCall ==
    /\ call.op = "input"
    /\ call.obj \in TruthyParsed
    /\ \E provider \in Providers :
        call' = [call EXCEPT !.op = "hardenedClassify"] @@
                [used |-> HardenedCategories(call.categories), threw |-> FALSE,
                 out |-> HardenedClassify(provider, call.obj, call.categories, call.subs)]
    /\ UNCHANGED <<bcall, kcall>> /\ UNCHANGED srvVars

\* the handlers of server.js reject a categories that is no array before any adapter runs
AdapterCall ==
    /\ call.op = "input"
    /\ call.categories.isArray
    /\ \E provider \in Providers :
        call' = [call EXCEPT !.op = "adapter"] @@
                [used |-> call.categories, threw |-> AdapterThrows(call.obj),
                 out |-> IF AdapterThrows(call.obj) THEN SanitizeDefaults(Undef)
                         ELSE AdapterResult(provider, call.obj, call.categories, call.subs)]
    /\ UNCHANGED <<bcall, kcall>> /\ UNCHANGED srvVars

HardenedAnalyzeCall ==
    /\ bcall.op = "input"
    /\ ObjTruthy(bcall.batch)
    /\ \E provider \in Providers :
        bcall' = [bcall EXCEPT !.op = "hardenedAnalyze"] @@
                 [used |-> HardenedCategories(bcall.categories),
                  resp |-> HardenedAnalyze(provider, bcall.batch, bcall.lines,
                                           bcall.categories, bcall.subs)]
    /\ UNCHANGED <<call, kcall>> /\ UNCHANGED srvVars

\* callLLM hands the minimal handler a truthy parsed value
MinimalAnalyzeCall ==
    /\ bcall.op = "input"
    /\ ObjTruthy(bcall.batch)
    /\ bcall' = [bcall EXCEPT !.op = "minimalAnalyze"] @@
                [used |-> bcall.categories,
                 resp |-> MinimalAnalyze(bcall.batch, bcall.lines, bcall.categories,
                                         bcall.subs)]
    /\ UNCHANGED <<call, kcall>> /\ UNCHANGED srvVars

AnalyzeCall ==
    /\ bcall.op = "input"
    /\ bcall.categories.isArray
    /\ bcall' = [bcall EXCEPT !.op = "analyze"] @@
                [used |-> bcall.categories, resp |-> AnalyzeResponse(bcall.batch)]
    /\ UNCHANGED <<call, kcall>> /\ UNCHANGED srvVars

\* requests whose keys are compared: texts, category arrays and subcategory mappings
\* that repeat one another in another order or letter case, or differ
KeyTexts == {"Milk", " milk ", "tea"}
KeyCategories ==
    {CatArr(<<"Groceries", "Other">>), CatArr(<<"other", "groceries">>),
     CatArr(<<"Groceries", "Movies">>), CatArr(<<"Groceries">>)}
KeySubMaps ==
    {<<>>,
     <<[k |-> "Groceries", v |-> <<"Dairy", "Misc">>], [k |-> "Other", v |-> <<"Misc">>]>>,
     <<[k |-> "Groceries", v |-> <<"misc", "dairy">>], [k |-> "Other", v |-> <<"Misc">>]>>,
     <<[k |-> "Other", v |-> <<"Misc">>], [k |-> "Groceries", v |-> <<"Dairy", "Misc">>]>>,
     <<[k |-> "Groceries", v |-> <<"Dairy">>]>>}
KeyRequests ==
    {[text |-> t, categories |-> c, subs |-> m] :
        t \in KeyTexts, c \in KeyCategories, m \in KeySubMaps}

KeyInputs == {[op |-> "input", a |-> a, b |-> b] : a, b \in KeyRequests}

CacheKeyCall ==
    /\ kcall.op = "input"
    /\ kcall' = [kcall EXCEPT !.op = "cacheKey"] @@
                [ka |-> cacheKey(kcall.a.text, kcall.a.categories, kcall.a.subs),
                 kb |-> cacheKey(kcall.b.text, kcall.b.categories, kcall.b.subs)]
    /\ UNCHANGED <<call, bcall>> /\ UNCHANGED srvVars

MinimalKeyCall ==
    /\ kcall.op = "input"
    /\ kcall' = [kcall EXCEPT !.op = "minimalKey"] @@
                [ka |-> minimalKey(kcall.a.text, kcall.a.categories),
                 kb |-> minimalKey(kcall.b.text, kcall.b.categories)]
    /\ UNCHANGED <<call, bcall>> /\ UNCHANGED srvVars

NoBatch == [active |-> FALSE]
NoResp == [status |-> 0]
\* the history variable: not kept, kept and empty, or the latest success
Unwatched == [on |-> FALSE]
Watching == [on |-> TRUE, seen |-> FALSE]

\* a server that has not been started
SrvOff ==
    /\ variant = "none" /\ GEMINI_API_KEY = FALSE /\ OPENAI_API_KEY = FALSE
    /\ now = 0 /\ CACHE = <<>> /\ tasks = <<>> /\ batch = NoBatch /\ resp = NoResp
    /\ ops = <<>> /\ first = Unwatched

PureInit ==
    /\ \/ call \in SingleInputs /\ bcall = None /\ kcall = None
       \/ call = None /\ bcall \in BatchInputs /\ kcall = None
       \/ call = None /\ bcall = None /\ kcall \in KeyInputs
    /\ SrvOff

PureNext ==
    \/ SanitizeCall
    \/ SanitizeMinimalCall
    \/ HardenedClassifyCall
    \/ AdapterCall
    \/ HardenedAnalyzeCall
    \/ MinimalAnalyzeCall
    \/ AnalyzeCall
    \/ CacheKeyCall
    \/ MinimalKeyCall

SpecPure == PureInit /\ [][PureNext]_vars

(* ---------------------------------------------------------------------- *)
(* Properties of the results                                               *)
(* ---------------------------------------------------------------------- *)
\* the results of the last operation, one or many
Applied(c) == c.op \notin {"none", "input"}
Results ==
    IF Applied(call) /\ ~call.threw THEN {call.out}
    ELSE IF Applied(bcall) THEN Elems(bcall.resp.items)
    ELSE {}
UsedCategories == IF Applied(call) THEN call.used ELSE bcall.used
UsedSubs == IF Applied(call) THEN call.subs ELSE bcall.subs
Sanitizers == {"sanitizeSingle", "sanitizeSingleMinimal"}
HardenedOps == {"hardenedClassify", "hardenedAnalyze"}
LastOp == IF Applied(call) THEN call.op ELSE bcall.op

\* C1: the category sanitizeSingle returns is a member of the supplied categories,
\* or 'Other' when categories is empty or absent
C1_CategoryInCategories ==
    call.op \in Sanitizers =>
        IF Len(ArrayOrEmpty(call.categories)) = 0
        THEN call.out.category = Str("Other")
        ELSE call.out.category.s \in Elems(call.categories.items)

\* C2: every result the hardened /classify and /analyze send has a category that is
\* a member of the categories list used for the request
C2_HardenedCategoryInCategories ==
    LastOp \in HardenedOps =>
        \A r \in Results : r.category.t = "string" /\ r.category.s \in Elems(UsedCategories.items)

\* C3: the confidence of every result returned to a caller is a number in [0,1]
C3_ConfidenceInUnitInterval ==
    LastOp \in Sanitizers \cup {"adapter", "analyze"} =>
        \A r \in Results :
            r.confidence.t = "number" /\ 0 <= r.confidence.n /\ r.confidence.n <= 100

\* C4: subcategory is non-null only if confidence >= 0.8 and the value is listed in
\* the subcategory mapping under the result's final category
C4_SubcategoryOnlyIfConfidentAndListed ==
    LastOp \in HardenedOps \cup {"adapter"} =>
        \A r \in Results :
            r.subcategory # Null =>
                /\ r.confidence.t = "number" /\ r.confidence.n >= 80
                /\ r.subcategory.t = "string"
                /\ includes(LookupOrEmpty(UsedSubs, r.category.s), r.subcategory.s)

\* C5: the sanitizer outputs the entry of categories that equals the model's category
\* ignoring case, in the caller's casing, and the fallback category otherwise
C5_CaseInsensitiveCategory ==
    (call.op \in Sanitizers /\ call.obj.t = "object") =>
        LET same == {e \in Elems(ArrayOrEmpty(call.categories)) :
                        /\ call.obj.category.t = "string"
                        /\ toLowerCase(e) = toLowerCase(call.obj.category.s)}
        IN  IF same # {} THEN call.out.category.s \in same
            ELSE call.out.category = Str("Other")

\* the taxonomy of a request as sets, letter case and order forgotten
CanonCategories(r) == {toLowerCase(c) : c \in Elems(ArrayOrEmpty(r.categories))}
CanonSubs(r) ==
    {<<toLowerCase(r.subs[i].k), {toLowerCase(x) : x \in Elems(r.subs[i].v)}>> :
        i \in 1..Len(r.subs)}
SameText(a, b) == toLowerCase(trim(a.text)) = toLowerCase(trim(b.text))
SameTaxonomy(a, b) ==
    CanonCategories(a) = CanonCategories(b) /\ CanonSubs(a) = CanonSubs(b)

\* C7: same text and taxonomies differing only in order or letter case (of categories,
\* of subcategories in a list, of the mapping's keys) give the same key; taxonomies
\* that differ as sets give different keys
C7_KeyInsensitiveToOrderAndCase ==
    Applied(kcall) =>
        /\ (SameText(kcall.a, kcall.b) /\ SameTaxonomy(kcall.a, kcall.b)) => kcall.ka = kcall.kb
        /\ ~SameTaxonomy(kcall.a, kcall.b) => kcall.ka # kcall.kb

(* ---------------------------------------------------------------------- *)
(* Response Cache.  A Map is the sequence of its entries in insertion      *)
(* order, each [k, ts, value]; time is counted in ticks of the clock and   *)
(* the limits below are the program's, scaled down.                        *)
(* ---------------------------------------------------------------------- *)
LRU_MAX == 1
CACHE_TTL_MS == 1
TTLCACHE_MAX == 2
TTLCACHE_TTL == 1
\* the time to live and the capacity of the cache in use
TTL == IF variant = "server" THEN CACHE_TTL_MS ELSE TTLCACHE_TTL
Capacity == IF variant = "server" THEN LRU_MAX ELSE TTLCACHE_MAX

MapHas(map, key) == \E i \in 1..Len(map) : map[i].k = key
MapIndex(map, key) == CHOOSE i \in 1..Len(map) : map[i].k = key
MapGet(map, key) == map[MapIndex(map, key)]
\* Map.prototype.delete
MapDelete(map, key) == SelectSeq(map, LAMBDA e : e.k # key)
\* Map.prototype.set: an existing key keeps its position
MapSet(map, key, entry) ==
    IF MapHas(map, key)
    THEN [map EXCEPT ![MapIndex(map, key)] = entry]
    ELSE Append(map, entry)

\* a lookup that forgets to look at the entry's age
cacheGet_NoExpiry(map, key, clock) ==
    IF ~MapHas(map, key) THEN [map |-> map, hit |-> FALSE, value |-> Null]
    ELSE [map |-> map, hit |-> TRUE, value |-> MapGet(map, key).value]

\* server.js cacheGet: [map, value], value Null on a miss
cacheGet(map, key, clock) ==
    IF ~MapHas(map, key) THEN [map |-> map, hit |-> FALSE, value |-> Null]
    ELSE IF clock - MapGet(map, key).ts > CACHE_TTL_MS
    THEN [map |-> MapDelete(map, key), hit |-> FALSE, value |-> Null]
    ELSE [map |-> map, hit |-> TRUE, value |-> MapGet(map, key).value]

\* a cacheSet that stores nothing
cacheSet_Dropped(map, key, value, clock) == map

\* server.js cacheSet
cacheSet(map, key, value, clock) ==
    LET kept == IF Len(map) > LRU_MAX THEN MapDelete(map, map[1].k) ELSE map
    IN  MapSet(kept, key, [k |-> key, ts |-> clock, value |-> value])

\* TTLCache.get of the minimal server
TTLCache_get(map, key, clock) ==
    IF ~MapHas(map, key) THEN [map |-> map, hit |-> FALSE, value |-> Null]
    ELSE IF clock - MapGet(map, key).ts > TTLCACHE_TTL
    THEN [map |-> MapDelete(map, key), hit |-> FALSE, value |-> Null]
    ELSE [map |-> map, hit |-> TRUE, value |-> MapGet(map, key).value]

\* TTLCache.set of the minimal server
TTLCache_set(map, key, value, clock) ==
    LET kept == IF Len(map) >= TTLCACHE_MAX /\ Len(map) > 0
                THEN MapDelete(map, map[1].k) ELSE map
    IN  MapSet(kept, key, [k |-> key, ts |-> clock, value |-> value])

(* ---------------------------------------------------------------------- *)
(* The running server: requests, provider routing, cache                   *)
(* ---------------------------------------------------------------------- *)
MaxTime == 2
MaxInflight == 2

CatsA == CatArr(<<"Groceries", "Other">>)
CatsB == CatArr(<<"groceries", "other">>)
SubsA == <<[k |-> "Groceries", v |-> <<"Dairy">>]>>
SubsB == <<[k |-> "groceries", v |-> <<"dairy">>]>>

\* /classify bodies sent to server.js: the second repeats the first in another letter
\* case, the third is another text
Requests ==
    {[text |-> "Milk", categories |-> CatsA, subs |-> SubsA],
     [text |-> " milk ", categories |-> CatsB, subs |-> SubsB],
     [text |-> "tea", categories |-> CatsA, subs |-> SubsA]}
\* /classify bodies sent to the minimal server: the second drops the first's subcategory
\* mapping, the third is another text
MinimalRequests ==
    {[text |-> "Milk", categories |-> CatsA, subs |-> SubsA],
     [text |-> "Milk", categories |-> CatsA, subs |-> <<>>],
     [text |-> "tea", categories |-> CatsA, subs |-> SubsA]}
\* bodies the server.js handler rejects: no text, categories no array
BadRequests ==
    {[text |-> "", categories |-> CatsA, subs |-> <<>>],
     [text |-> "Milk", categories |-> NoCats, subs |-> <<>>]}
\* /classify-batch bodies: no item, two texts, one text twice
BatchRequests ==
    {[items |-> <<>>, categories |-> CatsA, subs |-> SubsA],
     [items |-> <<"Milk", "tea">>, categories |-> CatsA, subs |-> SubsA],
     [items |-> <<"Milk", "Milk">>, categories |-> CatsA, subs |-> SubsA]}

\* what a provider answers when it succeeds
Good == Obj(Str("Groceries"), Str("Dairy"), Num(90), Txt(5), Undef, Undef, Undef)
Plain == Obj(Str("Other"), Undef, Num(60), Txt(3), Undef, Undef, Undef)
\* the provider's answer depends on the text it is asked about
AnswersFor(text) == IF text = "tea" THEN {Plain} ELSE {Good}

\* the pending classifications whose next provider call is `pc`
InFlight(pc) == {t \in BagToSet(tasks) : t.pc = pc}
\* room for `n` more classifications
Room(tk, n) == BagCardinality(tk) + n <= MaxInflight
Started(tk, t) == tk (+) SetToBag({t})
\* the adapter routeClassify / callLLM tries first
FirstProvider ==
    IF GEMINI_API_KEY THEN "gemini" ELSE IF OPENAI_API_KEY THEN "openai" ELSE "none"

GetOp(key, before, r) ==
    [op |-> "get", key |-> key, clock |-> now, before |-> before, after |-> r.map,
     hit |-> r.hit, value |-> r.value]
SetOp(key, before, after) ==
    [op |-> "set", key |-> key, clock |-> now, before |-> before, after |-> after,
     hit |-> FALSE, value |-> Null]
\* routeClassify / callLLM is called for the request of key `key`
RouteOp(key) == [op |-> "route", key |-> key, clock |-> now]

Response(kind, status, req, body, cached) ==
    [kind |-> kind, status |-> status, req |-> req, body |-> body, cached |-> cached,
     results |-> <<>>]
BatchResponse(status, req, results) ==
    [kind |-> "batch", status |-> status, req |-> req, body |-> Null, cached |-> FALSE,
     results |-> results]

SrvInit ==
    /\ call = None /\ bcall = None /\ kcall = None
    /\ variant \in {"server", "minimal"}
    /\ GEMINI_API_KEY \in BOOLEAN
    /\ OPENAI_API_KEY \in BOOLEAN
    /\ now = 0
    /\ CACHE = <<>>
    /\ tasks = EmptyBag
    /\ batch = NoBatch
    /\ resp = NoResp
    /\ ops = <<>>
    /\ first = Unwatched

\* Date.now() moves on
Tick ==
    /\ now < MaxTime
    /\ now' = now + 1
    /\ resp' = NoResp /\ ops' = <<>>
    /\ first' = IF first.on /\ first.seen /\ now' - first.ts > TTL THEN Watching ELSE first
    /\ UNCHANGED <<call, bcall, kcall, variant, GEMINI_API_KEY, OPENAI_API_KEY, CACHE,
                   tasks, batch>>

NewTask(rid, idx, req, key) ==
    [pc |-> FirstProvider, rid |-> rid, idx |-> idx, req |-> req, key |-> key]

\* server.js POST /classify up to `await routeClassify`
ServerClassify ==
    /\ variant = "server"
    /\ Room(tasks, 1)
    /\ \E req \in Requests :
        LET key == cacheKey(req.text, req.categories, req.subs)
            g == cacheGet(CACHE, key, now)
        IN  /\ CACHE' = g.map
            /\ ops' = IF g.hit THEN <<GetOp(key, CACHE, g)>>
                      ELSE <<GetOp(key, CACHE, g), RouteOp(key)>>
            /\ IF g.hit
               THEN /\ resp' = Response("classify", 200, req, g.value, TRUE)
                    /\ UNCHANGED tasks
               ELSE IF FirstProvider = "none"
               THEN /\ resp' = Response("classify", 502, req, Null, FALSE)
                    /\ UNCHANGED tasks
               ELSE /\ resp' = NoResp
                    /\ tasks' = Started(tasks, NewTask("classify", 1, req, key))
    /\ UNCHANGED <<call, bcall, kcall, variant, GEMINI_API_KEY, OPENAI_API_KEY, now, batch,
                   first>>

\* server.js POST /classify: `!text || !Array.isArray(categories)`
ServerClassifyInvalid ==
    /\ variant = "server"
    /\ \E req \in BadRequests :
        /\ req.text = "" \/ ~req.categories.isArray
        /\ resp' = Response("classify", 400, Null, Null, FALSE)
    /\ ops' = <<>>
    /\ UNCHANGED <<call, bcall, kcall, variant, GEMINI_API_KEY, OPENAI_API_KEY, now, CACHE,
                   tasks, batch, first>>

\* minimal server POST /classify up to `await callLLM`
MinimalClassify ==
    /\ variant = "minimal"
    /\ Room(tasks, 1)
    /\ \E req \in MinimalRequests :
        LET key == minimalKey(req.text, req.categories)
            g == TTLCache_get(CACHE, key, now)
        IN  /\ CACHE' = g.map
            /\ ops' = IF g.hit THEN <<GetOp(key, CACHE, g)>>
                      ELSE <<GetOp(key, CACHE, g), RouteOp(key)>>
            /\ IF g.hit
               THEN /\ resp' = Response("classify", 200, req, g.value, FALSE)
                    /\ UNCHANGED tasks
               ELSE IF FirstProvider = "none"
               THEN /\ resp' = Response("classify", 500, req, Null, FALSE)
                    /\ UNCHANGED tasks
               ELSE /\ resp' = NoResp
                    /\ tasks' = Started(tasks, NewTask("classify", 1, req, key))
    /\ UNCHANGED <<call, bcall, kcall, variant, GEMINI_API_KEY, OPENAI_API_KEY, now, batch,
                   first>>

\* one element of the results being assembled: pending until its classification returns
Pending == [done |-> FALSE, body |-> Null, cached |-> FALSE]
Done(body, cached) == [done |-> TRUE, body |-> body, cached |-> cached]

\* the synchronous part of items.map(async ...): each item in order computes its key and
\* calls cacheGet; a miss starts routeClassify
RECURSIVE BatchScan(_, _, _)
BatchScan(breq, i, acc) ==
    IF i > Len(breq.items) THEN acc
    ELSE LET req == [text |-> breq.items[i], categories |-> breq.categories,
                     subs |-> breq.subs]
             key == cacheKey(req.text, req.categories, req.subs)
             g == cacheGet(acc.map, key, now)
             log == IF g.hit THEN Append(acc.ops, GetOp(key, acc.map, g))
                    ELSE acc.ops \o <<GetOp(key, acc.map, g), RouteOp(key)>>
         IN  IF g.hit
             THEN BatchScan(breq, i + 1,
                      [acc EXCEPT !.map = g.map, !.ops = log,
                                  !.results = Append(@, Done(g.value, TRUE))])
             ELSE IF FirstProvider = "none"
             THEN BatchScan(breq, i + 1,
                      [acc EXCEPT !.map = g.map, !.ops = log, !.rejected = TRUE,
                                  !.results = Append(@, Pending)])
             ELSE BatchScan(breq, i + 1,
                      [acc EXCEPT !.map = g.map, !.ops = log,
                                  !.tasks = Started(@, NewTask("batch", i, req, key)),
                                  !.results = Append(@, Pending)])

AllDone(results) == \A i \in 1..Len(results) : results[i].done

\* server.js POST /classify-batch up to `await Promise.all`
ServerClassifyBatch ==
    /\ variant = "server"
    /\ ~batch.active
    /\ \E breq \in BatchRequests :
        /\ Room(tasks, Len(breq.items))
        /\ LET r == BatchScan(breq, 1, [map |-> CACHE, tasks |-> tasks, ops |-> <<>>,
                                        results |-> <<>>, rejected |-> FALSE])
           IN  /\ CACHE' = r.map
               /\ ops' = r.ops
               /\ IF r.rejected
                  THEN /\ resp' = BatchResponse(502, breq, <<>>)
                       /\ UNCHANGED <<tasks, batch>>
                  ELSE IF AllDone(r.results)
                  THEN /\ resp' = BatchResponse(200, breq, r.results)
                       /\ UNCHANGED <<tasks, batch>>
                  ELSE /\ resp' = NoResp
                       /\ tasks' = r.tasks
                       /\ batch' = [active |-> TRUE, req |-> breq, results |-> r.results]
    /\ UNCHANGED <<call, bcall, kcall, variant, GEMINI_API_KEY, OPENAI_API_KEY, now, first>>

\* a classification is over
Release(tk, t) == tk (-) SetToBag({t})
\* Promise.all has rejected: the batch's classifications still pending belong to no response
Orphan(t) == IF t.rid = "batch" THEN [t EXCEPT !.rid = "orphan"] ELSE t
Orphaned(tk) ==
    [u \in {Orphan(t) : t \in BagToSet(tk)} |->
        CopiesIn(u, tk) + (IF u.rid = "orphan" THEN CopiesIn([u EXCEPT !.rid = "batch"], tk)
                           ELSE 0)]

\* a Promise.all that collects the values in the order the promises settle
Settle_InCompletionOrder(results, idx, body) ==
    LET free == CHOOSE i \in 1..Len(results) :
                    ~results[i].done /\ \A j \in 1..(i - 1) : results[j].done
    IN  [results EXCEPT ![free] = Done(body, FALSE)]

\* Promise.all: the value of the promise items.map made for position idx goes to
\* position idx of the results
Settle(results, idx, body) == [results EXCEPT ![idx] = Done(body, FALSE)]

\* the history after `task` stored `result`: a /classify success is the latest one; another
\* store under its key, or its entry leaving the map, ends the entry it stored
Observed(task, result, after) ==
    IF ~first.on THEN first
    ELSE IF task.rid = "classify"
    THEN [on |-> TRUE, seen |-> TRUE, key |-> task.key, body |-> result, ts |-> now,
          intact |-> TRUE]
    ELSE IF first.seen /\ (task.key = first.key \/ ~MapHas(after, first.key))
    THEN [first EXCEPT !.intact = FALSE]
    ELSE first

\* the handler's continuation when routeClassify / callLLM has returned `result`:
\* store it under the task's key, then answer (or fill the batch position)
Deliver(task, result) ==
    LET after == IF variant = "server"
                THEN cacheSet(CACHE, task.key, result, now)
                ELSE TTLCache_set(CACHE, task.key, result, now)
        filled == Settle(batch.results, task.idx, result)
    IN  /\ CACHE' = after
        /\ first' = Observed(task, result, after)
        /\ ops' = <<SetOp(task.key, CACHE, after)>>
        /\ tasks' = Release(tasks, task)
        /\ IF task.rid = "classify"
           THEN /\ resp' = Response("classify", 200, task.req, result, FALSE)
                /\ UNCHANGED batch
           ELSE IF task.rid = "batch"
           THEN IF AllDone(filled)
                THEN /\ resp' = BatchResponse(200, batch.req, filled)
                     /\ batch' = NoBatch
                ELSE /\ resp' = NoResp
                     /\ batch' = [batch EXCEPT !.results = filled]
           ELSE /\ resp' = NoResp
                /\ UNCHANGED batch

\* the catch of a handler that answers the error and leaves the cache as `after`
Caught(task, after) ==
        /\ ops' = <<>>
        /\ CACHE' = after
        /\ UNCHANGED first
        /\ IF task.rid = "classify"
           THEN /\ resp' = Response("classify", IF variant = "server" THEN 502 ELSE 500,
                                    task.req, Null, FALSE)
                /\ tasks' = Release(tasks, task)
                /\ UNCHANGED batch
           ELSE IF task.rid = "batch"
           THEN /\ resp' = BatchResponse(502, batch.req, <<>>)
                /\ tasks' = Orphaned(Release(tasks, task))
                /\ batch' = NoBatch
           ELSE /\ resp' = NoResp
                /\ tasks' = Release(tasks, task)
                /\ UNCHANGED batch

\* a catch that stores the failure under the item's key
Reject_ErrorCached(task) ==
    Caught(task, IF variant = "server" THEN cacheSet(CACHE, task.key, Null, now)
                 ELSE TTLCache_set(CACHE, task.key, Null, now))

\* the handler's catch when routeClassify / callLLM has thrown: an error response and no
\* cache write; Promise.all rejects at once and the batch's other classifications run on
\* unobserved
Reject(task) == Caught(task, CACHE)

\* what the awaiting code receives when the provider `provider` answered `out`:
\* server.js adapters build the result record, the minimal callLLM returns the parsed value
Received(provider, task, out) ==
    IF variant = "server"
    THEN AdapterResult(provider, out, task.req.categories, task.req.subs)
    ELSE sanitizeSingleMinimal(out, task.req.categories, task.req.subs)

\* the primary adapter answers
GeminiReturns ==
    /\ \E task \in InFlight("gemini") : \E out \in AnswersFor(task.req.text) :
        Deliver(task, Received("gemini", task, out))
    /\ UNCHANGED <<call, bcall, kcall, variant, GEMINI_API_KEY, OPENAI_API_KEY, now>>

\* the primary adapter fails for `task` (the 8 s abort, a network error, a text that is
\* no JSON): the secondary is tried if configured
GeminiFailsFor(task) ==
    /\ task \in InFlight("gemini")
    /\ IF OPENAI_API_KEY
       THEN /\ tasks' = Started(Release(tasks, task), [task EXCEPT !.pc = "openai"])
            /\ resp' = NoResp /\ ops' = <<>>
            /\ UNCHANGED <<CACHE, batch, first>>
       ELSE Reject(task)
    /\ UNCHANGED <<call, bcall, kcall, variant, GEMINI_API_KEY, OPENAI_API_KEY, now>>

GeminiFails == \E task \in InFlight("gemini") : GeminiFailsFor(task)

\* the secondary adapter answers
OpenAIReturns ==
    /\ \E task \in InFlight("openai") : \E out \in AnswersFor(task.req.text) :
        Deliver(task, Received("openai", task, out))
    /\ UNCHANGED <<call, bcall, kcall, variant, GEMINI_API_KEY, OPENAI_API_KEY, now>>

\* the secondary adapter fails for `task`
OpenAIFailsFor(task) ==
    /\ task \in InFlight("openai")
    /\ Reject(task)
    /\ UNCHANGED <<call, bcall, kcall, variant, GEMINI_API_KEY, OPENAI_API_KEY, now>>

OpenAIFails == \E task \in InFlight("openai") : OpenAIFailsFor(task)

Next ==
    \/ Tick
    \/ ServerClassify
    \/ ServerClassifyInvalid
    \/ ServerClassifyBatch
    \/ MinimalClassify
    \/ GeminiReturns
    \/ GeminiFails
    \/ OpenAIReturns
    \/ OpenAIFails

Spec == SrvInit /\ [][Next]_vars

\* server.js with the history of its latest /classify success kept
RepeatInit ==
    /\ call = None /\ bcall = None /\ kcall = None
    /\ variant = "server"
    /\ GEMINI_API_KEY \in BOOLEAN
    /\ OPENAI_API_KEY \in BOOLEAN
    /\ now = 0
    /\ CACHE = <<>>
    /\ tasks = EmptyBag
    /\ batch = NoBatch
    /\ resp = NoResp
    /\ ops = <<>>
    /\ first = Watching

RepeatNext ==
    \/ Tick
    \/ ServerClassify
    \/ ServerClassifyInvalid
    \/ ServerClassifyBatch
    \/ GeminiReturns
    \/ GeminiFails
    \/ OpenAIReturns
    \/ OpenAIFails

SpecRepeat == RepeatInit /\ [][RepeatNext]_vars

\* server.js answering /classify-batch requests only
BatchInit ==
    /\ call = None /\ bcall = None /\ kcall = None
    /\ variant = "server"
    /\ GEMINI_API_KEY \in BOOLEAN
    /\ OPENAI_API_KEY \in BOOLEAN
    /\ now = 0
    /\ CACHE = <<>>
    /\ tasks = EmptyBag
    /\ batch = NoBatch
    /\ resp = NoResp
    /\ ops = <<>>
    /\ first = Unwatched

BatchNext ==
    \/ Tick
    \/ ServerClassifyBatch
    \/ GeminiReturns
    \/ GeminiFails
    \/ OpenAIReturns
    \/ OpenAIFails

SpecBatch == BatchInit /\ [][BatchNext]_vars

(* ---------------------------------------------------------------------- *)
(* The two caches on their own: any sequence of get, set and clock ticks   *)
(* ---------------------------------------------------------------------- *)
CacheKeys == {"c:milk", "c:tea", "c:rice"}
CacheValues == {"v1", "v2"}

CacheInit ==
    /\ call = None /\ bcall = None /\ kcall = None
    /\ variant \in {"server", "minimal"}
    /\ GEMINI_API_KEY = FALSE /\ OPENAI_API_KEY = FALSE
    /\ now = 0
    /\ CACHE = <<>>
    /\ tasks = EmptyBag
    /\ batch = NoBatch
    /\ resp = NoResp
    /\ ops = <<>>
    /\ first = Unwatched

\* server.js cacheGet(key)
CacheGetCall ==
    /\ variant = "server"
    /\ \E key \in CacheKeys :
        LET g == cacheGet(CACHE, key, now)
        IN  CACHE' = g.map /\ ops' = <<GetOp(key, CACHE, g)>>
    /\ UNCHANGED <<call, bcall, kcall, variant, GEMINI_API_KEY, OPENAI_API_KEY, now, tasks,
                   batch, resp, first>>

\* server.js cacheSet(key, value)
CacheSetCall ==
    /\ variant = "server"
    /\ \E key \in CacheKeys, value \in CacheValues :
        LET after == cacheSet(CACHE, key, value, now)
        IN  CACHE' = after /\ ops' = <<SetOp(key, CACHE, after)>>
    /\ UNCHANGED <<call, bcall, kcall, variant, GEMINI_API_KEY, OPENAI_API_KEY, now, tasks,
                   batch, resp, first>>

\* cache.get(k) of the minimal server
TTLCacheGetCall ==
    /\ variant = "minimal"
    /\ \E key \in CacheKeys :
        LET g == TTLCache_get(CACHE, key, now)
        IN  CACHE' = g.map /\ ops' = <<GetOp(key, CACHE, g)>>
    /\ UNCHANGED <<call, bcall, kcall, variant, GEMINI_API_KEY, OPENAI_API_KEY, now, tasks,
                   batch, resp, first>>

\* cache.set(k, v) of the minimal server
TTLCacheSetCall ==
    /\ variant = "minimal"
    /\ \E key \in CacheKeys, value \in CacheValues :
        LET after == TTLCache_set(CACHE, key, value, now)
        IN  CACHE' = after /\ ops' = <<SetOp(key, CACHE, after)>>
    /\ UNCHANGED <<call, bcall, kcall, variant, GEMINI_API_KEY, OPENAI_API_KEY, now, tasks,
                   batch, resp, first>>

CacheNext ==
    \/ Tick
    \/ CacheGetCall
    \/ CacheSetCall
    \/ TTLCacheGetCall
    \/ TTLCacheSetCall

SpecCache == CacheInit /\ [][CacheNext]_vars

(* ---------------------------------------------------------------------- *)
(* Properties of the cache and of the responses served from it             *)
(* ---------------------------------------------------------------------- *)
\* a classification result that fits a request's taxonomy
FitsRequest(body, categories, subs) ==
    /\ body.category.t = "string"
    /\ body.category.s \in Elems(ArrayOrEmpty(categories))
    /\ body.subcategory # Null =>
            /\ body.subcategory.t = "string"
            /\ includes(LookupOrEmpty(subs, body.category.s), body.subcategory.s)

\* C18: a successful /analyze response holds as many items as the input has non-empty
\* trimmed lines, positions the model left out being filled in
C18_OneItemPerLine ==
    (bcall.op \in {"hardenedAnalyze", "minimalAnalyze"} /\ bcall.resp.status = 200) =>
        Len(bcall.resp.items) = Len(bcall.lines)

\* `body` is a classification of `text` under the taxonomy of the batch request
ClassificationOf(body, text, breq) ==
    \E provider \in Providers : \E out \in AnswersFor(text) :
        body = AdapterResult(provider, out, breq.categories, breq.subs)

\* C19: in a /classify-batch response results[i] is the classification of items[i],
\* whatever the order in which the classifications completed and whichever came from
\* the cache
C19_ResultsInItemOrder ==
    (resp.status = 200 /\ resp.kind = "batch") =>
        /\ Len(resp.results) = Len(resp.req.items)
        /\ \A i \in 1..Len(resp.results) :
                /\ resp.results[i].done
                /\ ClassificationOf(resp.results[i].body, resp.req.items[i], resp.req)

\* a batch of two different texts was answered by the completion of its first item,
\* the second having completed before it
C19_CompletedOutOfOrder ==
    /\ resp.status = 200 /\ resp.kind = "batch"
    /\ Len(resp.req.items) = 2
    /\ resp.req.items[1] # resp.req.items[2]
    /\ ~resp.results[1].cached /\ ~resp.results[2].cached
    /\ Len(ops) = 1 /\ ops[1].op = "set"
    /\ ops[1].key = cacheKey(resp.req.items[1], resp.req.categories, resp.req.subs)

\* C20: in a batch a provider response that cannot be used for one line is absorbed
\* into the fallback item (Other, 0.1) and the batch still completes: a well-formed
\* /classify-batch request to a server with a provider configured is answered 200 with
\* one result per item
C20_BatchAbsorbsFailure ==
    (resp.status \notin {0, 400} /\ resp.kind = "batch"
            /\ (GEMINI_API_KEY \/ OPENAI_API_KEY)) =>
        /\ resp.status = 200
        /\ Len(resp.results) = Len(resp.req.items)

\* a string or null
StringOrNull(v) == v = Null \/ v.t = "string"
\* a result record with every field of its type
CompleteResult(o) ==
    /\ o.category.t = "string"
    /\ StringOrNull(o.subcategory)
    /\ o.confidence.t = "number" /\ o.confidence.n \in 0..100
    /\ o.reason.t = "string"
    /\ StringOrNull(o.suggestedNewCategory)
    /\ StringOrNull(o.suggestedNewSubcategory)
    /\ StringOrNull(o.alternativeCategory)
\* the defaults of every field but the provider
AllDefaults(o) ==
    /\ o.category = Str("Other") /\ o.subcategory = Null /\ o.confidence = Num(0)
    /\ o.reason = Str("") /\ o.suggestedNewCategory = Null
    /\ o.suggestedNewSubcategory = Null /\ o.alternativeCategory = Null

\* C23: sanitizeSingle never fails: for every input value and every categories and
\* subcategory mapping it returns a complete result record in which each missing or
\* wrongly-typed field holds its default, and an input that is no object gives the
\* all-defaults result
C23_SanitizeNeverFails ==
    call.op \in Sanitizers =>
        LET in == call.obj
            o == call.out
            cats == Elems(ArrayOrEmpty(call.categories))
        IN  /\ ~call.threw
            /\ CompleteResult(o)
            /\ (~ObjTruthy(in) \/ ~IsObjectType(in)) => AllDefaults(o)
            /\ (typeof(in.category) # "string" \/ in.category.s \notin cats)
                    => o.category = Str("Other")
            /\ typeof(in.confidence) # "number" => o.confidence = Num(0)
            /\ typeof(in.reason) # "string" => o.reason = Str("")
            /\ typeof(in.subcategory) # "string" => o.subcategory = Null
            /\ typeof(in.suggestedNewCategory) # "string" => o.suggestedNewCategory = Null
            /\ typeof(in.suggestedNewSubcategory) # "string"
                    => o.suggestedNewSubcategory = Null
            /\ (typeof(in.alternativeCategory) # "string"
                    \/ in.alternativeCategory.s \notin cats) => o.alternativeCategory = Null

\* an object with a category and a confidence of the wrong type was sanitized, with no
\* categories given
C23_WrongTypesDefaulted ==
    /\ call.op = "sanitizeSingle"
    /\ call.obj.t = "object"
    /\ typeof(call.obj.category) = "number"
    /\ typeof(call.obj.confidence) = "string"
    /\ ~call.categories.isArray
    /\ call.out.category = Str("Other")
    /\ call.out.confidence = Num(0)

\* C24: in every result the hardened /classify returns, after sanitizeSingle and the
\* post-rule, alternativeCategory is null or a member of the categories that differs
\* from the result's final category
C24_AlternativeDiffersFromCategory ==
    (call.op = "hardenedClassify" /\ ~call.threw) =>
        \/ call.out.alternativeCategory = Null
        \/ /\ call.out.alternativeCategory.t = "string"
           /\ call.out.alternativeCategory.s \in Elems(call.used.items)
           /\ call.out.alternativeCategory # call.out.category

\* the model supplied a string reason
SuppliedReason(obj) == obj.t = "object" /\ typeof(obj.reason) = "string"

\* C25: the reason of every result the hardened /classify and /analyze return is at
\* most 280 characters long, and is the empty string when the model supplied no string
\* reason
C25_ReasonCapped ==
    /\ (call.op = "hardenedClassify" /\ ~call.threw) =>
            /\ call.out.reason.t = "string"
            /\ call.out.reason.n <= 280
            /\ (call.obj.t = "object" /\ ~SuppliedReason(call.obj))
                    => call.out.reason = Str("")
    /\ (bcall.op = "hardenedAnalyze" /\ bcall.resp.status = 200) =>
            \A i \in 1..Len(bcall.resp.items) :
                /\ bcall.resp.items[i].reason.t = "string"
                /\ bcall.resp.items[i].reason.n <= 280

\* C6: a /classify or /classify-batch response served from the cache has a category
\* that is a member of the current request's categories, in that request's casing,
\* and a subcategory valid under the current request's mapping
C6_CachedResponseFitsRequest ==
    /\ (resp.status = 200 /\ resp.kind = "classify" /\ ops # <<>> /\ ops[1].op = "get"
            /\ ops[1].hit) =>
          FitsRequest(resp.body, resp.req.categories, resp.req.subs)
    /\ (resp.status = 200 /\ resp.kind = "batch") =>
          \A i \in 1..Len(resp.results) :
              resp.results[i].cached =>
                  FitsRequest(resp.results[i].body, resp.req.categories, resp.req.subs)

Without(map, key) == SelectSeq(map, LAMBDA e : e.k # key)
\* the lookup `o` found an entry older than the time to live
Expired(o) ==
    /\ o.op = "get"
    /\ \E j \in 1..Len(o.before) : o.before[j].k = o.key /\ o.clock - o.before[j].ts > TTL

\* the last step was POST /classify getting past validation: one lookup, and on a miss the
\* router call
ClassifyStep ==
    /\ Len(ops) \in {1, 2}
    /\ ops[1].op = "get"
    /\ Len(ops) = 2 => ops[2].op = "route"
\* the last step was a /classify with the key of the latest /classify success, within the
\* time to live of that success
Repeat ==
    /\ first.on /\ first.seen
    /\ ClassifyStep
    /\ ops[1].key = first.key
    /\ ops[1].clock - first.ts <= CACHE_TTL_MS
\* the repeat is answered from the cache with the classification of the first response
ServedAsFirst ==
    /\ ops[1].hit
    /\ \A i \in 1..Len(ops) : ops[i].op # "route"
    /\ resp.status = 200 /\ resp.kind = "classify" /\ resp.cached
    /\ resp.body.provider = first.body.provider
    /\ resp.body.category = first.body.category
    /\ resp.body.subcategory = first.body.subcategory
    /\ resp.body.confidence = first.body.confidence
    /\ resp.body.reason = first.body.reason
    /\ resp.body.suggestedNewCategory = first.body.suggestedNewCategory

C12_RouterOncePerKey ==
    /\ \A i, j \in 1..Len(ops) :
            (ops[i].op = "route" /\ ops[j].op = "route" /\ ops[i].key = ops[j].key)
                => i = j
    /\ (now = 0 /\ CACHE = <<>>) =>
            \A t, u \in BagToSet(tasks) :
                t.key = u.key => (t = u /\ CopiesIn(t, tasks) = 1)

\* C8: get never returns the value of an entry whose age exceeds the TTL; such a lookup
\* is a miss and removes that entry and no other; a hit returns the value of an entry
\* of age at most the TTL
C8_ExpiredNeverReturned ==
    \A i \in 1..Len(ops) :
        LET o == ops[i]
        IN  /\ Expired(o) =>
                /\ ~o.hit /\ o.value = Null
                /\ o.after = Without(o.before, o.key)
            /\ (o.op = "get" /\ o.hit) =>
                \E j \in 1..Len(o.before) :
                    /\ o.before[j].k = o.key
                    /\ o.clock - o.before[j].ts <= TTL
                    /\ o.value = o.before[j].value

\* a lookup of an expired entry missed and removed it, another entry staying in the map
C8_ExpiredLookupMissed ==
    \E i \in 1..Len(ops) :
        /\ Expired(ops[i])
        /\ ~ops[i].hit
        /\ Len(ops[i].before) >= 2
        /\ Len(ops[i].after) = Len(ops[i].before) - 1

\* C9: the cache never holds more than its maximum number of entries
C9_CacheAtMostMax == Len(CACHE) <= Capacity

\* C10: a set with the cache at capacity removes exactly the earliest-inserted entry
\* before inserting; a set for a key already present removes no other entry
C10_SetEvictsOldestOnly ==
    \A i \in 1..Len(ops) :
        LET o == ops[i]
            present == \E j \in 1..Len(o.before) : o.before[j].k = o.key
        IN  o.op = "set" =>
                /\ present => Without(o.after, o.key) = Without(o.before, o.key)
                /\ (~present /\ Len(o.before) >= Capacity) =>
                        Without(o.after, o.key) = Tail(o.before)
                /\ (~present /\ Len(o.before) < Capacity) =>
                        Without(o.after, o.key) = o.before

(* ---------------------------------------------------------------------- *)
(* The routers: which adapter is called, in which order, and what comes   *)
(* back                                                                   *)
(* ---------------------------------------------------------------------- *)
\* what the upstream does with one adapter call: a JSON answer of the model, an empty
\* text, a text that is no JSON, a non-success status with a JSON error body, or no
\* response at all (the 8 s abort, a network error)
Outcomes == {"good", "empty", "unparseable", "error", "abort"}
\* the adapter call did not obtain a classification from the upstream
UpstreamFailed(o) == o \in {"unparseable", "error", "abort"}

\* request bodies: the text, and the `provider` field only mapper_strict.js reads
RouteTexts == {"Milk", "buy milk"}
ProviderFields == {"absent", "gemini", "openai"}
RouteRequests == {[text |-> t, provider |-> f] : t \in RouteTexts, f \in ProviderFields}
\* one router call: the request, a second request to compare with, and what each
\* upstream would do if called
RouteInputs ==
    {[op |-> "request", req |-> r, req2 |-> r2, gemini |-> g, openai |-> o] :
        r, r2 \in RouteRequests, g, o \in Outcomes}

\* the outcome of a router call: the adapters invoked in order, whether a result was
\* returned, the provider field of the response and the backend that produced the answer
Routed(trace, ok, provider, producer) ==
    [trace |-> trace, ok |-> ok, provider |-> provider, producer |-> producer]
Failed(trace) == Routed(trace, FALSE, "none", "none")

\* server.js classifyWithGemini / classifyWithOpenAI: fetch rejects on abort; r.json()
\* reads any JSON body whatever the status; JSON.parse(textOut || "{}") throws on a text
\* that is no JSON and reads {} when the body holds no text
FetchThrows(o) == o \in {"abort", "unparseable"}
\* mapper_strict.js adapters: throw on !r.ok; a text that is no JSON becomes a default
StrictThrows(o) == o \in {"abort", "error"}
\* callLLM: the SDK call throws on abort and on a non-success status (caught), and
\* safeParse / safeJsonParse give null for an empty text and for a text that is no JSON
SdkParsed(o) == o = "good"

\* a routeClassify that calls the primary adapter again after it failed
routeClassify_Retry(g, o) ==
    IF GEMINI_API_KEY /\ ~FetchThrows(g)
    THEN Routed(<<"gemini">>, TRUE, "gemini", "gemini")
    ELSE LET tried == IF GEMINI_API_KEY THEN <<"gemini", "gemini">> ELSE <<>>
         IN  IF OPENAI_API_KEY
             THEN IF FetchThrows(o) THEN Failed(Append(tried, "openai"))
                  ELSE Routed(Append(tried, "openai"), TRUE, "openai", "openai")
             ELSE Failed(tried)

\* server.js routeClassify (lines 224-238)
routeClassify(g, o) ==
    IF GEMINI_API_KEY /\ ~FetchThrows(g)
    THEN Routed(<<"gemini">>, TRUE, "gemini", "gemini")
    ELSE LET tried == IF GEMINI_API_KEY THEN <<"gemini">> ELSE <<>>
         IN  IF OPENAI_API_KEY
             THEN IF FetchThrows(o) THEN Failed(Append(tried, "openai"))
                  ELSE Routed(Append(tried, "openai"), TRUE, "openai", "openai")
             ELSE Failed(tried)

\* server.js routeClassify of Stage 1.5 (lines 641-670): with no credential at all a
\* local heuristic answers
routeClassifyHeuristic(g, o) ==
    IF GEMINI_API_KEY \/ OPENAI_API_KEY THEN routeClassify(g, o)
    ELSE Routed(<<>>, TRUE, "heuristic", "heuristic")

\* mapper_strict.js routeClassify: the request's provider field (default "gemini")
\* selects the one adapter called; the result carries no provider field
routeClassifyStrict(req, g, o) ==
    LET provider == IF req.provider = "absent" THEN "gemini" ELSE req.provider
    IN  IF provider = "gemini"
        THEN IF ~GEMINI_API_KEY THEN Failed(<<>>)
             ELSE IF StrictThrows(g) THEN Failed(<<"gemini">>)
             ELSE Routed(<<"gemini">>, TRUE, "none", "gemini")
        ELSE IF ~OPENAI_API_KEY THEN Failed(<<>>)
             ELSE IF StrictThrows(o) THEN Failed(<<"openai">>)
             ELSE Routed(<<"openai">>, TRUE, "none", "openai")

\* callLLM of the hardened server: { provider, raw, parsed } of the first adapter whose
\* text parses
callLLM(g, o) ==
    IF GEMINI_API_KEY /\ SdkParsed(g)
    THEN Routed(<<"gemini">>, TRUE, "gemini", "gemini")
    ELSE LET tried == IF GEMINI_API_KEY THEN <<"gemini">> ELSE <<>>
         IN  IF OPENAI_API_KEY
             THEN IF SdkParsed(o)
                  THEN Routed(Append(tried, "openai"), TRUE, "openai", "openai")
                  ELSE Failed(Append(tried, "openai"))
             ELSE Failed(tried)

\* callLLM of the minimal server: returns the parsed value alone
callLLMMinimal(g, o) ==
    LET r == callLLM(g, o)
    IN  IF r.ok THEN [r EXCEPT !.provider = "none"] ELSE r

\* POST /analyze with the overall category: call("gemini"), on a throw call("openai");
\* the response's provider is `preferGemini ? "gemini" : "openai"`
analyzeRoute(g, o) ==
    LET preferGemini == GEMINI_API_KEY
        reported == IF preferGemini THEN "gemini" ELSE "openai"
    IN  IF preferGemini /\ ~FetchThrows(g)
        THEN Routed(<<"gemini">>, TRUE, reported, "gemini")
        ELSE LET tried == IF preferGemini THEN <<"gemini">> ELSE <<>>
             IN  IF ~OPENAI_API_KEY THEN Failed(tried)
                 ELSE IF FetchThrows(o) THEN Failed(Append(tried, "openai"))
                 ELSE Routed(Append(tried, "openai"), TRUE, reported, "openai")

\* one router call on the request and on the request compared with
RouteCall(name, res, res2) ==
    /\ call.op = "request"
    /\ call' = [op |-> name, in |-> call, res |-> res, res2 |-> res2]
    /\ UNCHANGED <<bcall, kcall>> /\ UNCHANGED srvVars

RouteClassifyCall ==
    RouteCall("routeClassify", routeClassify(call.gemini, call.openai),
              routeClassify(call.gemini, call.openai))
RouteClassifyHeuristicCall ==
    RouteCall("routeClassifyHeuristic", routeClassifyHeuristic(call.gemini, call.openai),
              routeClassifyHeuristic(call.gemini, call.openai))
RouteClassifyStrictCall ==
    RouteCall("routeClassifyStrict", routeClassifyStrict(call.req, call.gemini, call.openai),
              routeClassifyStrict(call.req2, call.gemini, call.openai))
CallLLMCall ==
    RouteCall("callLLM", callLLM(call.gemini, call.openai),
              callLLM(call.gemini, call.openai))
CallLLMMinimalCall ==
    RouteCall("callLLMMinimal", callLLMMinimal(call.gemini, call.openai),
              callLLMMinimal(call.gemini, call.openai))
AnalyzeRouteCall ==
    RouteCall("analyzeRoute", analyzeRoute(call.gemini, call.openai),
              analyzeRoute(call.gemini, call.openai))

RouteInit ==
    /\ call \in RouteInputs /\ bcall = None /\ kcall = None
    /\ variant = "none"
    /\ GEMINI_API_KEY \in BOOLEAN
    /\ OPENAI_API_KEY \in BOOLEAN
    /\ now = 0 /\ CACHE = <<>> /\ tasks = <<>> /\ batch = NoBatch /\ resp = NoResp
    /\ ops = <<>> /\ first = Unwatched

RouteNext ==
    \/ RouteClassifyCall
    \/ RouteClassifyHeuristicCall
    \/ RouteClassifyStrictCall
    \/ CallLLMCall
    \/ CallLLMMinimalCall
    \/ AnalyzeRouteCall

SpecRoute == RouteInit /\ [][RouteNext]_vars

Routers ==
    {"routeClassify", "routeClassifyHeuristic", "routeClassifyStrict", "callLLM",
     "callLLMMinimal", "analyzeRoute"}

\* C13: the primary adapter is invoked first when it is configured; on any failure of
\* the primary (timeout, missing credential, non-success upstream response, unparseable
\* response) the secondary is invoked if configured; a failure of the primary is never
\* returned as a successful classification
C13_PrimaryThenSecondary ==
    call.op = "routeClassify" =>
        LET r == call.res
            primaryFailed == ~GEMINI_API_KEY \/ UpstreamFailed(call.in.gemini)
        IN  /\ GEMINI_API_KEY => (r.trace # <<>> /\ r.trace[1] = "gemini")
            /\ (primaryFailed /\ OPENAI_API_KEY) =>
                    (r.trace # <<>> /\ r.trace[Len(r.trace)] = "openai")
            /\ primaryFailed => ~(r.ok /\ r.producer = "gemini")

\* C14: a classify call fails (an upstream-error response, no result) whenever the
\* primary has failed and the secondary fails too, or when no adapter is configured
C14_FailsWhenAllFail ==
    call.op \in {"routeClassify", "routeClassifyHeuristic", "callLLM"} =>
        LET primaryFailed == ~GEMINI_API_KEY \/ UpstreamFailed(call.in.gemini)
            secondaryFailed == ~OPENAI_API_KEY \/ UpstreamFailed(call.in.openai)
        IN  (primaryFailed /\ secondaryFailed) => ~call.res.ok

\* C15: the provider field of a response names the backend that produced the answer
C15_ProviderIsProducer ==
    (call.op \in {"routeClassify", "callLLM", "analyzeRoute"} /\ call.res.ok) =>
        call.res.provider = call.res.producer

\* C16: which adapters are called and which provider answers depends on the
\* configuration and on the failures only: two requests meeting the same configuration
\* and the same upstream outcomes are routed alike
C16_RoutingIgnoresRequest ==
    call.op \in Routers =>
        /\ call.res.trace = call.res2.trace
        /\ call.res.producer = call.res2.producer

\* C17: one call invokes each adapter at most once, two invocations at most
C17_EachAdapterOnce ==
    call.op \in Routers =>
        LET t == call.res.trace
        IN  /\ Len(t) <= 2
            /\ \A i, j \in 1..Len(t) : t[i] = t[j] => i = j

\* a call whose primary failed and whose secondary was then invoked, once each
C17_BothInvokedOnce ==
    /\ call.op = "routeClassify"
    /\ UpstreamFailed(call.in.gemini)
    /\ call.res.trace = <<"gemini", "openai">>

(* ---------------------------------------------------------------------- *)
(* The mapper on model texts of every form, followed by the sanitizer     *)
(* ---------------------------------------------------------------------- *)
\* texts a model can answer: nothing, no JSON at all, a JSON value, a JSON object
\* wrapped in other text
ModelTexts ==
    {[form |-> "empty", val |-> Prim("null")], [form |-> "garbage", val |-> Prim("null")]}
        \cup {[form |-> "json", val |-> v] : v \in ModelItems \cup ModelPrimitives}
        \cup {[form |-> "wrapped", val |-> v] : v \in ModelItems \ {Prim("null"), Prim("number")}}
MapInputs ==
    {[op |-> "text", text |-> t, categories |-> cats, subs |-> subs] :
        t \in ModelTexts, cats \in CategoryLists, subs \in SubMaps}

\* mapClassify(modelText), then sanitizeSingle on its result
MapClassifyCall ==
    /\ call.op = "text"
    /\ call' = [call EXCEPT !.op = "mapClassify"] @@
               [mapped |-> mapClassify(call.text),
                out |-> sanitizeSingle(mapClassify(call.text), call.categories, call.subs)]
    /\ UNCHANGED <<bcall, kcall>> /\ UNCHANGED srvVars

MapInit ==
    /\ call \in MapInputs /\ bcall = None /\ kcall = None
    /\ SrvOff

MapNext == MapClassifyCall

SpecMap == MapInit /\ [][MapNext]_vars

\* C21: for a model text that parses neither directly nor between its first '{' and its
\* last '}', mapClassify returns the fallback with category 'Other' and confidence 0.1,
\* and sanitizeSingle keeps category 'Other' and confidence 0.1
C21_UnparseableGivesFallback ==
    (call.op = "mapClassify" /\ call.text.form = "garbage") =>
        /\ call.mapped.category = Str("Other")
        /\ call.mapped.confidence = Num(10)
        /\ call.mapped.subcategory = Null
        /\ call.out.category = Str("Other")
        /\ call.out.confidence = Num(10)

\* an unparseable text was mapped and sanitized against categories that do not list
\* 'Other'
C21_FallbackSanitized ==
    /\ call.op = "mapClassify" /\ call.text.form = "garbage"
    /\ call.categories = CatArr(<<"Groceries", "Movies">>)
    /\ call.out.category = Str("Other")
    /\ call.out.confidence = Num(10)

(* ---------------------------------------------------------------------- *)
(* Request validation: what each /classify handler does with a body up to *)
(* its first await                                                        *)
(* ---------------------------------------------------------------------- *)
BodyTexts == {Undef, Null, Str(""), Str("Milk")}
BodyInputs ==
    {[op |-> "body", text |-> t, categories |-> cats, subs |-> subs] :
        t \in BodyTexts, cats \in CategoryLists, subs \in SubMaps}

\* how far a handler went: the status it answered at once (0 when it went on to the
\* router), whether it looked into the cache, whether it called the router, and the text
\* it built the prompt from
Accepted(status, cacheRead, routed, text) ==
    [status |-> status, cacheRead |-> cacheRead, routed |-> routed, text |-> text]

\* server.js: `if (!text || !Array.isArray(categories)) return res.status(400)`, then
\* cacheKey and cacheGet (the cache is empty: a miss), then routeClassify
ServerAccept(body) ==
    IF ~Truthy(body.text) \/ ~body.categories.isArray
    THEN Accepted(400, FALSE, FALSE, Undef)
    ELSE Accepted(0, TRUE, TRUE, body.text)

\* hardened server: text is body.text when a string, else String(body.text ?? '').trim();
\* no test of text or categories; buildClassifyPrompt, then callLLM
HardenedAccept(body) ==
    LET text == IF typeof(body.text) = "string" THEN body.text ELSE Str("")
    IN  Accepted(0, FALSE, TRUE, text)

\* minimal server: raw = String(text || ''); cache.get(key) (a miss), then callLLM
MinimalAccept(body) ==
    LET raw == IF Truthy(body.text) THEN body.text ELSE Str("")
    IN  Accepted(0, TRUE, TRUE, raw)

AcceptCall(name, res) ==
    /\ call.op = "body"
    /\ call' = [call EXCEPT !.op = name] @@ [res |-> res]
    /\ UNCHANGED <<bcall, kcall>> /\ UNCHANGED srvVars

ServerAcceptCall == AcceptCall("serverAccept", ServerAccept(call))
HardenedAcceptCall == AcceptCall("hardenedAccept", HardenedAccept(call))
MinimalAcceptCall == AcceptCall("minimalAccept", MinimalAccept(call))

AcceptInit ==
    /\ call \in BodyInputs /\ bcall = None /\ kcall = None
    /\ SrvOff

AcceptNext ==
    \/ ServerAcceptCall
    \/ HardenedAcceptCall
    \/ MinimalAcceptCall

SpecAccept == AcceptInit /\ [][AcceptNext]_vars

\* C22: a classify request with no text, or with categories that are no array, is
\* answered with a client error; the router is not called and the cache is not touched
C22_InvalidRequestRejected ==
    (call.op \in {"serverAccept", "hardenedAccept"}
            /\ (~Truthy(call.text) \/ ~call.categories.isArray)) =>
        /\ call.res.status = 400
        /\ ~call.res.routed
        /\ ~call.res.cacheRead

(* ---------------------------------------------------------------------- *)
(* Provider calls that may never return                                    *)
(* ---------------------------------------------------------------------- *)
\* the requests of each endpoint that wait for their response
ClassifyPending == \E t \in BagToSet(tasks) : t.rid = "classify"
BatchPending == batch.active
AnalyzePending == \E t \in BagToSet(tasks) : t.rid = "analyze"

\* a client that sends its next /classify when the previous one is answered
LiveClassify ==
    /\ ~ClassifyPending
    /\ ServerClassify

\* what the provider's text parses to in POST /analyze
AnalyzeOutputs == {Batch(<<>>), BatchPrim("object")}

\* the pending provider call of a /analyze request; its key is never used
AnalyzeTask(req) ==
    [pc |-> "analyze", rid |-> "analyze", idx |-> 1, req |-> req,
     key |-> cacheKey(req.text, req.categories, req.subs)]

\* server.js POST /analyze up to `await fetch`: the one provider that is configured is
\* called, the cache is not consulted
ServerAnalyze ==
    /\ variant = "server"
    /\ ~AnalyzePending
    /\ Room(tasks, 1)
    /\ \E req \in Requests :
        IF FirstProvider = "none"
        THEN /\ resp' = Response("analyze", 502, req, Null, FALSE)
             /\ UNCHANGED tasks
        ELSE /\ resp' = NoResp
             /\ tasks' = Started(tasks, AnalyzeTask(req))
    /\ ops' = <<>>
    /\ UNCHANGED <<call, bcall, kcall, variant, GEMINI_API_KEY, OPENAI_API_KEY, now, CACHE,
                   batch, first>>

\* the provider answers the /analyze call: the response is built from the parsed text
ServerAnalyzeReturns ==
    /\ \E task \in InFlight("analyze") : \E out \in AnalyzeOutputs :
        LET r == AnalyzeResponse(out)
        IN  /\ resp' = [Response("analyze", r.status, task.req, Null, FALSE) EXCEPT
                            !.results = r.items]
            /\ tasks' = Release(tasks, task)
    /\ ops' = <<>>
    /\ UNCHANGED <<call, bcall, kcall, variant, GEMINI_API_KEY, OPENAI_API_KEY, now, CACHE,
                   batch, first>>

\* the /analyze fetch rejects (the connection fails): the catch answers 502
ServerAnalyzeFails ==
    /\ \E task \in InFlight("analyze") :
        /\ resp' = Response("analyze", 502, task.req, Null, FALSE)
        /\ tasks' = Release(tasks, task)
    /\ ops' = <<>>
    /\ UNCHANGED <<call, bcall, kcall, variant, GEMINI_API_KEY, OPENAI_API_KEY, now, CACHE,
                   batch, first>>

LiveInit == BatchInit

LiveNext ==
    \/ LiveClassify
    \/ ServerClassifyBatch
    \/ ServerAnalyze
    \/ GeminiReturns
    \/ GeminiFails
    \/ OpenAIReturns
    \/ OpenAIFails
    \/ ServerAnalyzeReturns
    \/ ServerAnalyzeFails

\* the classifications classifyWithGemini / classifyWithOpenAI can be asked for
TimedCalls ==
    {[pc |-> pc, rid |-> rid, idx |-> idx, req |-> req,
      key |-> cacheKey(req.text, req.categories, req.subs)] :
        rid \in {"classify", "batch"}, idx \in 1..MaxItems, req \in Requests,
        pc \in {"gemini", "openai"}}

\* classifyWithGemini and classifyWithOpenAI arm `setTimeout(() => ac.abort(), 8000)`
\* before their fetch: a call still pending when the timer fires fails.  The fetch of
\* POST /analyze carries no signal and no timer, so nothing forces it to settle.
SpecLive ==
    /\ LiveInit
    /\ [][LiveNext]_vars
    /\ \A t \in TimedCalls : WF_vars(GeminiFailsFor(t)) /\ WF_vars(OpenAIFailsFor(t))

\* the adapters' timer at work: a /classify or /classify-batch request that waits for a
\* provider is answered in the end
TimedRequestsAnswered ==
    /\ ClassifyPending ~> ~ClassifyPending
    /\ BatchPending ~> ~BatchPending

\* C26: every provider call is bounded by the per-call timeout, so every accepted
\* /classify, /classify-batch and /analyze request eventually receives its response
\* even if a provider never replies
C26_EveryRequestAnswered ==
    /\ ClassifyPending ~> ~ClassifyPending
    /\ BatchPending ~> ~BatchPending
    /\ AnalyzePending ~> ~AnalyzePending

(* ---------------------------------------------------------------------- *)
(* The hint lists embedded in the prompts                                  *)
(* ---------------------------------------------------------------------- *)
\* capHints' default maxPerCat, and the argument buildClassifyPrompt passes
HINT_CAP == 100

\* a value of hintsByCategory[cat]: an array of phrases, or something else
HintList(n) == [isArray |-> TRUE, items |-> [i \in 1..n |-> i]]
NoHintList == [isArray |-> FALSE, items |-> <<>>]
HintValues ==
    {HintList(n) : n \in {0, 1, HINT_CAP - 1, HINT_CAP, HINT_CAP + 1}} \cup {NoHintList}
\* the caller's hintsByCategory: absent, or a mapping of two categories
HintMaps ==
    {[given |-> FALSE, entries |-> <<>>]}
        \cup {[given |-> TRUE,
               entries |-> <<[k |-> "Groceries", v |-> a], [k |-> "Other", v |-> b]>>] :
                 a \in HintValues, b \in HintValues}
HintInputs == {[op |-> "hints", hints |-> h] : h \in HintMaps}

\* Array.prototype.slice(0, max)
Slice(items, max) == SubSeq(items, 1, IF Len(items) < max THEN Len(items) ELSE max)

\* capHints(hintsByCategory, maxPerCat): the array values cut to maxPerCat, the others left out
capHints(h, maxPerCat) ==
    LET arrays == SelectSeq(h.entries, LAMBDA e : e.v.isArray)
    IN  [i \in 1..Len(arrays) |->
            [k |-> arrays[i].k, v |-> HintList(Len(Slice(arrays[i].v.items, maxPerCat)))]]

\* JSON.stringify(hintsByCategory || {}): every value as the caller sent it
EmbeddedWhole(h) == h.entries

HintsCall(name, embedded) ==
    /\ call.op = "hints"
    /\ call' = [call EXCEPT !.op = name] @@ [embedded |-> embedded]
    /\ UNCHANGED <<bcall, kcall>> /\ UNCHANGED srvVars

\* minimal server buildClassifyPrompt: HINTS_BY_CATEGORY is capHints(hintsByCategory, 100)
BuildClassifyPromptCall == HintsCall("buildClassifyPrompt", capHints(call.hints, 100))
\* hardened server /classify and /analyze: hints: capHints(hintsByCategory)
HardenedPromptCall == HintsCall("hardenedPrompt", capHints(call.hints, HINT_CAP))
\* server.js POST /analyze (overall category): JSON.stringify(hintsByCategory || {})
AnalyzeInstrCall == HintsCall("analyzeInstr", EmbeddedWhole(call.hints))
\* server.js POST /analyze (Stage 1.5): JSON.stringify(hintsByCategory)
Stage15InstrCall == HintsCall("stage15Instr", EmbeddedWhole(call.hints))

HintsInit ==
    /\ call \in HintInputs /\ bcall = None /\ kcall = None
    /\ SrvOff

HintsNext ==
    \/ BuildClassifyPromptCall
    \/ HardenedPromptCall
    \/ AnalyzeInstrCall
    \/ Stage15InstrCall

SpecHints == HintsInit /\ [][HintsNext]_vars

\* the list the caller sent for the category of the embedded entry e
CallerList(e) ==
    LET i == CHOOSE j \in 1..Len(call.hints.entries) : call.hints.entries[j].k = e.k
    IN  call.hints.entries[i].v

\* capHints at work: the prompts of the minimal and the hardened server carry at most
\* 100 phrases per list
CappedWhereCapHintsIsUsed ==
    call.op \in {"buildClassifyPrompt", "hardenedPrompt"} =>
        \A i \in 1..Len(call.embedded) : Len(call.embedded[i].v.items) <= 100

\* C27: every hint list embedded in a prompt holds at most 100 phrases, the first 100 of
\* the caller's list in order, for every handler that embeds hintsByCategory
C27_HintListsCapped ==
    call.op \in {"buildClassifyPrompt", "hardenedPrompt", "analyzeInstr", "stage15Instr"} =>
        \A i \in 1..Len(call.embedded) :
            call.embedded[i].v.isArray =>
                /\ Len(call.embedded[i].v.items) <= 100
                /\ call.embedded[i].v.items
                       = Slice(CallerList(call.embedded[i]).items, 100)

(* ---------------------------------------------------------------------- *)
(* Providers that fail every classification                               *)
(* ---------------------------------------------------------------------- *)
\* the result of an earlier classification of "Milk"
SeedResult ==
    IF variant = "server" THEN AdapterResult(FirstProvider, Good, CatsA, SubsA)
    ELSE sanitizeSingleMinimal(Good, CatsA, SubsA)
\* the cache after that result was stored at time 0
Seeded ==
    IF variant = "server"
    THEN cacheSet(<<>>, cacheKey("Milk", CatsA, SubsA), SeedResult, 0)
    ELSE TTLCache_set(<<>>, minimalKey("Milk", CatsA), SeedResult, 0)

\* the server when its providers have stopped answering: the cache is empty or holds
\* what a provider answered earlier
FailInit ==
    /\ call = None /\ bcall = None /\ kcall = None
    /\ variant \in {"server", "minimal"}
    /\ GEMINI_API_KEY \in BOOLEAN
    /\ OPENAI_API_KEY \in BOOLEAN
    /\ now = 0
    /\ CACHE \in (IF FirstProvider = "none" THEN {<<>>} ELSE {<<>>, Seeded})
    /\ tasks = EmptyBag
    /\ batch = NoBatch
    /\ resp = NoResp
    /\ ops = <<>>
    /\ first = Unwatched

FailNext ==
    \/ Tick
    \/ ServerClassify
    \/ MinimalClassify
    \/ ServerClassifyBatch
    \/ GeminiFails
    \/ OpenAIFails

SpecFail == FailInit /\ [][FailNext]_vars

\* the step kept every entry of the cache but expired ones: none added, none replaced,
\* none moved
OnlyExpiredRemoved ==
    LET after == CACHE'
    IN  /\ after = SelectSeq(CACHE, LAMBDA e : MapHas(after, e.k))
        /\ \A i \in 1..Len(CACHE) : ~MapHas(after, CACHE[i].k) => now - CACHE[i].ts > TTL

\* an error response
FailedResponse == resp.status \in {500, 502} /\ resp.kind \in {"classify", "batch"}

\* C28 (as stated): an item whose classification fails leaves the cache unchanged: no
\* entry is added, replaced or evicted
C28_FailedItemKeepsCache == [][CACHE' = CACHE]_vars

\* C28 (amended): an item whose classification fails adds and replaces no entry and
\* removes no entry but an expired one its lookup met, and no entry holds an error, so
\* what a later lookup serves was answered by a provider
C28_FailedItemKeepsLiveEntries ==
    /\ [][OnlyExpiredRemoved]_vars
    /\ [](\A i \in 1..Len(CACHE) : CACHE[i].value = SeedResult)

\* a classification has failed while the cache held an entry, and the entry is still there
C28_FailedWithEntryKept == FailedResponse /\ ops = <<>> /\ CACHE = Seeded

(* ---------------------------------------------------------------------- *)
(* POST /analyze (Stage 1.5): one result, from the provider or the         *)
(* heuristic, through the final guard                                      *)
(* ---------------------------------------------------------------------- *)
\* a lock that prefers the current category to the forced one
lockCategory_CurrentFirst(subcategoryOnly, forceCategory, currentCategory) ==
    IF subcategoryOnly THEN OrElse(currentCategory, OrElse(forceCategory, Null)) ELSE Null

\* subcategoryOnly ? (forceCategory || currentCategory || null) : null
lockCategory(subcategoryOnly, forceCategory, currentCategory) ==
    IF subcategoryOnly THEN OrElse(forceCategory, OrElse(currentCategory, Null)) ELSE Null

\* subcategoriesByCat[key] || [], the key converted to a property name
SubsUnder(subcategoriesByCat, key) == LookupOrEmpty(subcategoriesByCat, String(key))

StageResult(category, subcategory, suggestedNewCategory) ==
    [category |-> category, subcategory |-> subcategory,
     suggestedNewCategory |-> suggestedNewCategory]

\* providerOut.results.map: one element r of the provider's results
ProviderOne(r, subcategoryOnly, lock) ==
    StageResult(IF subcategoryOnly THEN Coalesce(lock, Null) ELSE Coalesce(r.category, Null),
                Coalesce(r.subcategory, Null),
                IF subcategoryOnly THEN Null ELSE Coalesce(r.suggestedNewCategory, Null))

\* the first category whose name looks like a grocery list
GroceryLike(categories) ==
    LET cats == ArrayOrEmpty(categories)
        hits == {i \in 1..Len(cats) : toLowerCase(cats[i]) = "groceries"}
    IN  IF hits = {} THEN Null ELSE Str(cats[CHOOSE i \in hits : \A j \in hits : i <= j])

\* heuristicOne(line): line.qty is what the quantity patterns give (null, or NaN when a
\* pattern matches, its group being a backslash and letters), line.has are the lowercased
\* names the line contains
heuristicOne(line, subcategoryOnly, lock, categories, subcategoriesByCat) ==
    LET category == IF subcategoryOnly THEN lock
                    ELSE IF Truthy(line.qty) THEN OrElse(GroceryLike(categories), Null)
                    ELSE Null
        subs == IF subcategoryOnly THEN SubsUnder(subcategoriesByCat, lock)
                ELSE SubsUnder(subcategoriesByCat, category)
        hits == {i \in 1..Len(subs) : toLowerCase(subs[i]) \in line.has}
        sub == IF hits = {} THEN Null ELSE Str(subs[CHOOSE i \in hits : \A j \in hits : i <= j])
    IN  StageResult(category, sub, Null)

\* the final guard: the subcategory is validated when category and subcategory are both
\* truthy, and the lock is enforced
FinalGuard(r, subcategoryOnly, lock, subcategoriesByCat) ==
    LET sub == IF Truthy(r.category) /\ Truthy(r.subcategory)
               THEN OrElse(validateSub(r.category, r.subcategory, subcategoriesByCat), Null)
               ELSE r.subcategory
    IN  IF subcategoryOnly THEN StageResult(Coalesce(lock, Null), sub, Null)
        ELSE StageResult(r.category, sub, r.suggestedNewCategory)

\* what the caller sends and the provider answers
StageLocks == {Undef, Null, Str(""), Str("Groceries"), Str("Other")}
StageAnswers ==
    {Obj(c, sub, Num(80), Undef, snc, Undef, Undef) :
        c \in {Undef, Null, Str("Groceries"), Str("junk")},
        sub \in {Undef, Str("Dairy"), Str("dairy"), Str("Misc")},
        snc \in {Undef, Str("Food")}}
StageLines ==
    {[raw |-> "Milk", qty |-> Null, has |-> {}],
     [raw |-> "dairy milk", qty |-> Null, has |-> {"dairy"}],
     [raw |-> "\\d x Misc", qty |-> NaN, has |-> {"misc"}]}
StageInputs ==
    {[op |-> "stage", subcategoryOnly |-> so, forceCategory |-> f, currentCategory |-> c,
      categories |-> CatArr(<<"Groceries", "Other">>), subs |-> subs, item |-> it] :
        so \in BOOLEAN, f \in {Undef, Str(""), Str("Groceries")},
        c \in {Undef, Null, Str("Other")}, subs \in SubMaps,
        it \in [path : {"provider"}, r : StageAnswers, line : {CHOOSE l \in StageLines : TRUE}]
               \cup [path : {"heuristic"}, r : {Prim("null")}, line : StageLines]}

StageCall(path, res) ==
    /\ call.op = "stage"
    /\ call.item.path = path
    /\ call' = [call EXCEPT !.op = path] @@ [res |-> res]
    /\ UNCHANGED <<bcall, kcall>> /\ UNCHANGED srvVars

\* the provider answered with a results array
StageProviderCall ==
    LET lock == lockCategory(call.subcategoryOnly, call.forceCategory, call.currentCategory)
    IN  StageCall("provider",
                  FinalGuard(ProviderOne(call.item.r, call.subcategoryOnly, lock),
                             call.subcategoryOnly, lock, call.subs))

\* no provider, or an answer without a results array: lines.map(heuristicOne)
StageHeuristicCall ==
    LET lock == lockCategory(call.subcategoryOnly, call.forceCategory, call.currentCategory)
    IN  StageCall("heuristic",
                  FinalGuard(heuristicOne(call.item.line, call.subcategoryOnly, lock,
                                          call.categories, call.subs),
                             call.subcategoryOnly, lock, call.subs))

StageInit ==
    /\ call \in StageInputs /\ bcall = None /\ kcall = None
    /\ SrvOff

StageNext ==
    \/ StageProviderCall
    \/ StageHeuristicCall

SpecStage == StageInit /\ [][StageNext]_vars

StageDone == call.op \in {"provider", "heuristic"}

\* C29: after the final guard every result's subcategory is null or an entry of
\* subcategoriesByCat[category] for the result's final category, on the provider path
\* and on the heuristic path, whatever subcategoryOnly, forceCategory and
\* currentCategory are
C29_SubcategoryOfFinalCategory ==
    StageDone =>
        \/ call.res.subcategory = Null
        \/ /\ call.res.category.t = "string"
           /\ call.res.subcategory.t = "string"
           /\ includes(LookupOrEmpty(call.subs, call.res.category.s), call.res.subcategory.s)

\* the category a request locks: forceCategory when given, else currentCategory when
\* given, else null
LockedCategory ==
    IF Truthy(call.forceCategory) THEN call.forceCategory
    ELSE IF Truthy(call.currentCategory) THEN call.currentCategory
    ELSE Null

\* C30: when subcategoryOnly is set every result has the locked category and a null
\* suggestedNewCategory, whatever the provider returned and on both paths
C30_LockedCategoryKept ==
    (StageDone /\ call.subcategoryOnly) =>
        /\ call.res.category = LockedCategory
        /\ call.res.suggestedNewCategory = Null

\* the provider answered another category and a new one under a lock: the lock won
C30_ProviderOverruled ==
    /\ call.op = "provider" /\ call.subcategoryOnly
    /\ call.item.r.category = Str("junk")
    /\ call.item.r.suggestedNewCategory = Str("Food")
    /\ call.currentCategory = Str("Other")
    /\ call.res.category = Str("Groceries")
    /\ call.res.suggestedNewCategory = Null

====
